---- MODULE Spec2Model ----
(***************************************************************************)
(* The subprocess JSON-RPC client of agentX (MCPServer, src-tauri/src/mcp/ *)
(* server.rs) and the MCPManager::add_server flow that drives it.          *)
(*                                                                         *)
(* One MCPServer instance is shared by the tasks of Tasks.  Every await    *)
(* point of the client that another task or the subprocess can observe is  *)
(* one step of the model; the subprocess is the environment.               *)
(***************************************************************************)
EXTENDS Integers, Sequences, FiniteSets, TLC

\* ------------------------------------------------------------- bounds
NumTasks == 2      \* tasks sharing the client
MaxId    == 3      \* request ids handed out in one behaviour
MaxSpawn == 2      \* child processes spawned in one behaviour
MaxCuts  == 2      \* boundaries at which one model output is cut into deltas

Tasks == 1..NumTasks
Gens  == 1..MaxSpawn

VARIABLES
  process,      \* MCPServer.process: <<>> is None, <<g>> is Some(child g)
  stdout,       \* child.stdout of the stored child is Some (FALSE while taken)
  request_id,   \* MCPServer.request_id
  idLock,       \* holders of the request_id mutex
  procLock,     \* holders of the process mutex
  procs,        \* every child: unspawned, running, exited, or released by
                \* disconnect(): killed (it was running) or reaped (it had exited)
  outOpen,      \* the stored child still has the write end of its stdout
  wire,         \* everything written to the stored child's stdin, in order
  pc,           \* each task's position
  op,           \* each task's public operation in progress
  child,        \* connect(): the local `child` between spawn and store
  id,           \* send_request(): the local `id`
  ret,          \* the return that led to this state: who, from what, with what
  allocated,    \* history: every id read from the counter, in order
  honest,       \* history: the subprocess only answered requests it had read
  skipped,      \* history: the task's read loop skipped a timed-out request's Response
  timedOut,     \* history: ids of the requests to the stored child that timed out
  initOk,       \* history: the stored child's Response to `initialize` was read
  mgr,          \* MCPManager: where this client is in the registry
  adapter,      \* stream_complete: the adapter that made the stream
  sse,          \* history: the lines the backend sent, in order
  transport,    \* history: the frames in which the transport hands the lines over
  chunks,       \* the StreamingResponse items the stream has yielded
  accumulated_content, \* the Deepseek accumulator of the stream's closure
  servers,      \* MCPManager.servers: for every name, its client's child
  tool_to_server, \* MCPManager.tool_to_server
  advertised,   \* the tools that the process of each configuration lists
  call,         \* the manager call that has just returned, and what it did
  dpc,          \* MCPEnhancedProvider: where its call is
  request,      \* the CompletionRequest of the call, as it is by now
  submitted,    \* history: the requests handed to the base provider
  response,     \* the base provider's answer, then the decorator's
  executed,     \* history: the calls handed to execute_function, and the replies
  passed,       \* the chunks the caller has polled from the returned stream
  tpc,          \* MCPManager::execute_function: where its call is
  function_call, \* the FunctionCall it was given
  tool_call,    \* the MCPToolCall made of it: the params of `tools/call`
  result,       \* what send_request gave for `tools/call`
  returned,     \* what execute_function returned
  cpc,          \* stream_message: where its loop over the stream is
  function_name, \* its local of that name
  function_call_buffer, \* its local of that name
  emitted,      \* history: the payloads of its "stream-chunk" events
  executions,   \* history: the calls it has handed to execute_function
  parser_input, \* deepseek_parser: the `content` its functions are given
  function_calls, \* what parse_deepseek_tool_calls returned for it
  without_tools, \* what extract_content_without_tools returned for it
  applied       \* which of the two have been called

counterVars == <<request_id, idLock, allocated>>
localVars   == <<op, child, id, skipped>>
histVars    == <<timedOut, initOk>>
clientVars == <<process, stdout, procLock, procs, wire, pc, ret, histVars, mgr,
                honest, outOpen, counterVars, localVars>>
streamVars == <<adapter, sse, transport, chunks, accumulated_content>>
registryVars == <<servers, tool_to_server, advertised, call>>
decoratorVars == <<dpc, request, submitted, response, executed, passed>>
toolVars == <<tpc, function_call, tool_call, result, returned>>
consumerVars == <<cpc, function_name, function_call_buffer, emitted, executions>>
parserVars == <<parser_input, function_calls, without_tools, applied>>
otherVars  == <<streamVars, registryVars, decoratorVars, toolVars, consumerVars,
                parserVars>>
vars == <<clientVars, otherVars>>

\* ------------------------------------------------------------ messages
None    == <<>>
Some(g) == <<g>>

Shapes == {"result", "error", "both", "empty"}
OtherKinds == {"notif", "garbage", "badutf8"}

\* A line of the subprocess's stdout as serde decodes it into JsonRpcMessage:
\* a Response (with a result, with an error object, with both, or with
\* neither), a
\* Notification or server-initiated Request ("notif": both are logged and
\* skipped), a line that decodes as none of them ("garbage", a blank line
\* included), or bytes that are not UTF-8, on which read_line fails.
Response(i, s) == [kind |-> "resp", id |-> i, shape |-> s]
Other(k)       == [kind |-> k, id |-> 0, shape |-> "none"]
Lines ==
  {Response(i, s) : i \in 0..(MaxId - 1), s \in Shapes}
    \cup {Other(k) : k \in OtherKinds}

\* The `result` value of a Response: the subprocess's synthetic answer names
\* the request id it is addressed to.
ResultOf(l) == l.id

\* The `code` of the error object of a Response, synthetic in the same way.
ErrorOf(l) == l.id

\* What is written to stdin: the JSON text of a message, then its newline.
Json(k, m, i) == [part |-> "msg", kind |-> k, method |-> m, id |-> i]
Newline       == [part |-> "nl", kind |-> "nl", method |-> "", id |-> 0]

MethodOf(o) ==
  CASE o = "connect"    -> "initialize"
    [] o = "list_tools" -> "tools/list"
    [] o = "call_tool"  -> "tools/call"
    [] OTHER            -> "none"

\* Request ids whose line (JSON text and newline) is complete on stdin.
WrittenIds ==
  {wire[k].id : k \in {j \in 1..(Len(wire) - 1) :
       /\ wire[j].part = "msg" /\ wire[j].kind = "req"
       /\ wire[j + 1].part = "nl"}}

Spawned == {g \in Gens : procs[g] # "unspawned"}
Running(p) == p # None /\ procs[p[1]] = "running"

\* Calls that have started and have not yet incremented the id counter.
Pending ==
  Cardinality({t \in Tasks : pc[t] \in {"c_store", "a_list", "s_id", "s_incr"}})

\* No operation returned in the step that led to the state.
NoRet ==
  [task |-> 0, op |-> "none", outcome |-> "none", result |-> -1, error |-> -1,
   id |-> -1, skipped |-> FALSE]

\* MCPServer::new(config): no process, the counter at 0, nothing in flight.
Fresh ==
  /\ process = None
  /\ stdout = FALSE
  /\ request_id = 0
  /\ idLock = {}
  /\ procLock = {}
  /\ procs = [g \in Gens |-> "unspawned"]
  /\ outOpen = FALSE
  /\ wire = <<>>
  /\ pc = [t \in Tasks |-> "idle"]
  /\ op = [t \in Tasks |-> "none"]
  /\ child = [t \in Tasks |-> None]
  /\ id = [t \in Tasks |-> 0]
  /\ ret = NoRet
  /\ allocated = <<>>
  /\ honest = TRUE
  /\ skipped = [t \in Tasks |-> FALSE]
  /\ timedOut = {}
  /\ initOk = FALSE

\* No stream has been made.
NoStream ==
  /\ adapter = "none"
  /\ sse = <<>>
  /\ transport = <<>>
  /\ chunks = <<>>
  /\ accumulated_content = <<>>

\* The names of the server configurations and of the tools they list.
ServerNames == {"p1", "p2"}
ToolNames   == {"a", "b"}

\* No manager call has returned.
NoCall ==
  [fn |-> "none", arg |-> "none", connected |-> FALSE, listed |-> FALSE,
   outcome |-> "none", routed |-> "none", tools |-> {}, proc |-> "none"]

\* MCPManager::new: both maps are empty.
NoRegistry ==
  /\ servers = [p \in ServerNames |-> "absent"]
  /\ tool_to_server = [n \in ToolNames |-> "none"]
  /\ advertised = [p \in ServerNames |-> {}]
  /\ call = NoCall

\* No call of the enhancing provider has been made.
NoResponse ==
  [base |-> "none", content |-> <<>>, function_call |-> None, stream |-> <<>>]

NoDecorator ==
  /\ dpc = "idle"
  /\ request = [fn |-> "none", functions |-> None, tool_choice |-> None]
  /\ submitted = <<>>
  /\ response = NoResponse
  /\ executed = <<>>
  /\ passed = <<>>

\* No execute_function is under way.
NoFunctionCall == [name |-> "none", arguments |-> <<>>]
NoToolCall == [name |-> "none", arguments |-> None]
NoResult == [ok |-> FALSE, content |-> <<>>, keys |-> {}]
NoReturn == [outcome |-> "none", text |-> <<>>]

NoExecution ==
  /\ tpc = "idle"
  /\ function_call = NoFunctionCall
  /\ tool_call = NoToolCall
  /\ result = NoResult
  /\ returned = NoReturn

\* stream_message is not running.
NoConsumer ==
  /\ cpc = "idle"
  /\ function_name = None
  /\ function_call_buffer = None
  /\ emitted = <<>>
  /\ executions = <<>>

\* The functions of deepseek_parser are not under test.
NoParser ==
  /\ parser_input = <<>>
  /\ function_calls = <<>>
  /\ without_tools = <<>>
  /\ applied = {}

\* A client that tasks hold directly.
Init ==
  /\ Fresh
  /\ mgr = "api"
  /\ NoStream
  /\ NoRegistry
  /\ NoDecorator
  /\ NoExecution
  /\ NoParser
  /\ NoConsumer

\* ------------------------------------------------------------ the locks
\* tokio::sync::Mutex: lock().await completes only while nobody holds it.
\* The request_id mutex taken out: the counter is read and incremented
\* without exclusion.
IdLockIgnored == TRUE

IdLockFree == idLock = {}

\* The process mutex taken out: callers go for the pipes at once.
ProcLockIgnored == TRUE

ProcLockFree == procLock = {}

\* Where the caller of operation f goes on when f returns `o`: add_server
\* goes on to list_tools() after connect() and to the registration after
\* list_tools(), whose error it turns into an empty tool list; it returns
\* the error of connect().  Every other caller is a task of its own.
Resume(f, o) ==
  CASE mgr = "adding" /\ f = "connect" /\ o = "Ok" -> "a_list"
    [] mgr = "adding" /\ f = "list_tools" ->
         IF o = "Ok" THEN "a_tools" ELSE "a_empty"
    [] OTHER -> "idle"

\* Operation f of task t returns `o` (and the value v of an Ok, or the code
\* v in the message of an RPC error) to its caller; the call's locals are
\* gone.
Done(t, f, o, v) ==
  /\ pc' = [pc EXCEPT ![t] = Resume(f, o)]
  /\ ret' = [task |-> t, op |-> f, outcome |-> o,
             result |-> IF o = "RpcError" THEN -1 ELSE v,
             error |-> IF o = "RpcError" THEN v ELSE -1,
             id |-> IF f \in {"connect", "list_tools", "call_tool"}
                      THEN id[t] ELSE -1,
             skipped |-> skipped[t]]
  /\ op' = [op EXCEPT ![t] = "none"]
  /\ id' = [id EXCEPT ![t] = 0]
  /\ skipped' = [skipped EXCEPT ![t] = FALSE]
  /\ mgr' = IF mgr \in {"new", "adding"} /\ f = "connect" /\ o # "Ok"
             THEN "failed" ELSE mgr
  /\ UNCHANGED otherVars

\* Task t goes on to position p of its operation.
Goto(t, p) ==
  /\ pc' = [pc EXCEPT ![t] = p]
  /\ ret' = NoRet
  /\ UNCHANGED otherVars
  /\ UNCHANGED mgr

\* ------------------------------------------------------------ connect()
\* cmd.spawn()?: a spawn error leaves the client untouched.
SpawnFails(t) ==
  /\ Done(t, "connect", "SpawnFailed", -1)
  /\ UNCHANGED <<process, stdout, procLock, procs, wire, histVars, honest,
                 counterVars, outOpen, child>>

\* let child = cmd.spawn()?;
Spawn(t) ==
  /\ Cardinality(Spawned) < MaxSpawn
  /\ request_id + Pending < MaxId
  /\ LET g == Cardinality(Spawned) + 1 IN
       /\ procs' = [procs EXCEPT ![g] = "running"]
       /\ child' = [child EXCEPT ![t] = Some(g)]
  /\ op' = [op EXCEPT ![t] = "connect"]
  /\ pc' = [pc EXCEPT ![t] = "c_store"]
  /\ ret' = NoRet
  /\ UNCHANGED otherVars
  /\ UNCHANGED <<process, stdout, procLock, wire, histVars, honest, counterVars,
                 outOpen, id, skipped>>

ConnectSpawnFails(t) ==
  /\ pc[t] = "idle"
  /\ mgr = "api"
  /\ Cardinality(Spawned) < MaxSpawn
  /\ SpawnFails(t)

ConnectSpawn(t) ==
  /\ pc[t] = "idle"
  /\ mgr = "api"
  /\ Spawn(t)
  /\ UNCHANGED mgr

\* The scoped block of connect(): lock, *process = Some(child), try_wait(),
\* unlock.  The child is stored before its status is looked at, and the
\* error return leaves it stored.
ConnectStore(t) ==
  /\ pc[t] = "c_store"
  /\ ProcLockFree
  /\ process' = child[t]
  /\ stdout' = TRUE
  /\ outOpen' = Running(child[t])
  /\ wire' = <<>>
  /\ timedOut' = {}
  /\ initOk' = FALSE
  /\ child' = [child EXCEPT ![t] = None]
  /\ IF Running(child[t])
       THEN /\ Goto(t, "s_id")
            /\ UNCHANGED <<op, id, skipped>>
       ELSE Done(t, "connect", "ExitedImmediately", -1)
  /\ UNCHANGED <<procLock, procs, honest, counterVars>>

\* ------------------------------------------------------- send_request()
\* let mut id_lock = self.request_id.lock().await; let id = *id_lock;
AllocId(t) ==
  /\ pc[t] = "s_id"
  /\ IdLockFree
  /\ idLock' = idLock \cup {t}
  /\ id' = [id EXCEPT ![t] = request_id]
  /\ allocated' = Append(allocated, request_id)
  /\ Goto(t, "s_incr")
  /\ UNCHANGED <<process, stdout, procLock, procs, wire, histVars, honest,
                 request_id, outOpen, op, child, skipped>>

\* *id_lock += 1; drop(id_lock);
IncrId(t) ==
  /\ pc[t] = "s_incr"
  /\ request_id' = request_id + 1
  /\ idLock' = idLock \ {t}
  /\ Goto(t, "s_lock")
  /\ UNCHANGED <<process, stdout, procLock, procs, wire, histVars, honest,
                 allocated, outOpen, localVars>>

\* initialize() without the `?` on send_request: the notification follows
\* whatever the request came to.
FinishIgnoringError(t, o, v) ==
  IF op[t] = "connect"
    THEN /\ Goto(t, "n_lock")
         /\ UNCHANGED <<op, id, skipped>>
    ELSE Done(t, op[t], o, v)

\* send_request hands `o` (and the value v of an Ok) to its caller:
\* list_tools and call_tool return it; initialize() goes on to the
\* `initialized` notification after an Ok and returns the error otherwise.
Finish(t, o, v) ==
  IF op[t] = "connect" /\ o = "Ok"
    THEN /\ Goto(t, "n_lock")
         /\ UNCHANGED <<op, id, skipped>>
    ELSE Done(t, op[t], o, v)

\* self.process.lock().await, the None and stdin checks, and
\* stdin.write_all(msg.as_bytes()).  A write to the pipe of a child that has
\* exited fails (EPIPE).  The guard is dropped when the function returns.
SendLock(t) ==
  /\ pc[t] = "s_lock"
  /\ ProcLockFree
  /\ IF process = None
       THEN /\ Finish(t, "NoProcess", -1)
            /\ UNCHANGED <<procLock, wire>>
       ELSE IF ~Running(process)
         THEN /\ Finish(t, "WriteFailed", -1)
              /\ UNCHANGED <<procLock, wire>>
         ELSE /\ wire' = Append(wire, Json("req", MethodOf(op[t]), id[t]))
              /\ procLock' = procLock \cup {t}
              /\ Goto(t, "s_nl")
              /\ UNCHANGED <<op, id, skipped>>
  /\ UNCHANGED <<process, stdout, procs, histVars, honest, counterVars,
                 outOpen, child>>

\* stdin.write_all(b"\n") and flush().
SendNewline(t) ==
  /\ pc[t] = "s_nl"
  /\ IF Running(process)
       THEN /\ wire' = Append(wire, Newline)
            /\ Goto(t, "s_wait")
            /\ UNCHANGED <<procLock, op, id, skipped>>
       ELSE /\ Finish(t, "WriteFailed", -1)
            /\ procLock' = procLock \ {t}
            /\ UNCHANGED wire
  /\ UNCHANGED <<process, stdout, procs, histVars, honest, counterVars,
                 outOpen, child>>

\* process.try_wait() after the write, then process.stdout.take().
SendCheck(t) ==
  /\ pc[t] = "s_wait"
  /\ IF ~Running(process)
       THEN /\ Finish(t, "ExitedAfterSend", -1)
            /\ procLock' = procLock \ {t}
            /\ UNCHANGED stdout
       ELSE IF stdout
         THEN /\ stdout' = FALSE
              /\ Goto(t, "s_read1")
              /\ UNCHANGED <<procLock, op, id, skipped>>
         ELSE /\ Finish(t, "NoStdout", -1)
              /\ procLock' = procLock \ {t}
              /\ UNCHANGED stdout
  /\ UNCHANGED <<process, procs, wire, histVars, honest, counterVars, outOpen,
                 child>>

Reading(t) == pc[t] \in {"s_read1", "s_read"}

\* The id comparison left out: the first Response read is taken.
MatchesAnyResponse(l, i) == l.kind = "resp"

\* if response.id == id
Matches(l, i) == l.kind = "resp" /\ l.id = i

\* The pipe put back only on the path of a matching Response, as the
\* send_request of src-backup/providers/mcp.rs does.
LeaveRestoringOnMatch(t, o, v) ==
  /\ stdout' = (o \in {"Ok", "RpcError", "EmptyResponse"})
  /\ procLock' = procLock \ {t}
  /\ Finish(t, o, v)

\* The read loop leaves the timeout block with `o`: process.stdout =
\* Some(reader.into_inner()) puts the pipe back; the process guard is
\* dropped on return.
Leave(t, o, v) ==
  /\ stdout' = TRUE
  /\ procLock' = procLock \ {t}
  /\ Finish(t, o, v)

\* A read loop that looks at `result` before `error`.
HandleResultFirst(t, l) ==
  IF l.kind = "badutf8"
    THEN Leave(t, "ReadError", -1)
    ELSE IF Matches(l, id[t])
      THEN CASE l.shape \in {"result", "both"} -> Leave(t, "Ok", ResultOf(l))
             [] l.shape = "error" -> Leave(t, "RpcError", ErrorOf(l))
             [] OTHER             -> Leave(t, "EmptyResponse", -1)
      ELSE /\ Goto(t, "s_read")
           /\ skipped' = [skipped EXCEPT
                ![t] = @ \/ (l.kind = "resp" /\ l.id \in timedOut)]
           /\ UNCHANGED <<stdout, procLock, op, id>>

\* What one decoded line does to the waiting call: the error of a matching
\* Response is looked at before its result.
Handle(t, l) ==
  IF l.kind = "badutf8"
    THEN Leave(t, "ReadError", -1)
    ELSE IF Matches(l, id[t])
      THEN CASE l.shape \in {"error", "both"} -> Leave(t, "RpcError", ErrorOf(l))
             [] l.shape = "result" -> Leave(t, "Ok", ResultOf(l))
             [] OTHER              -> Leave(t, "EmptyResponse", -1)
      ELSE /\ Goto(t, "s_read")
           /\ skipped' = [skipped EXCEPT
                ![t] = @ \/ (l.kind = "resp" /\ l.id \in timedOut)]
           /\ UNCHANGED <<stdout, procLock, op, id>>

\* A line is an answer the protocol allows when it is a notification or a
\* result Response to a request whose line the subprocess has on its stdin.
HonestLine(l) ==
  \/ l.kind = "notif"
  \/ l.kind = "resp" /\ l.shape = "result" /\ l.id \in WrittenIds

\* reader.read_line(&mut line) returns a line of the subprocess.  A line
\* the subprocess writes while no call is reading is seen by the next read
\* loop and no sooner: the pipe hands line l over when it is read.
ReadLine(t, l) ==
  /\ Reading(t)
  /\ outOpen
  /\ Handle(t, l)
  /\ honest' = (honest /\ HonestLine(l))
  /\ initOk' = (initOk \/ (op[t] = "connect" /\ Matches(l, id[t])
                              /\ l.shape = "result"))
  /\ UNCHANGED <<process, procs, wire, timedOut, counterVars, outOpen, child>>

\* read_line returns Ok(0): "EOF reached immediately" on the first read,
\* "No response received" after the loop.
ReadEof(t) ==
  /\ Reading(t)
  /\ ~outOpen
  /\ Leave(t, IF pc[t] = "s_read1" THEN "EOF" ELSE "NoResponse", -1)
  /\ UNCHANGED <<process, procs, wire, histVars, honest, counterVars, outOpen,
                 child>>

\* The read loop without tokio::time::timeout around it, as in
\* src-backup/providers/mcp.rs: no deadline ever fires.
NoTimeout(t) == FALSE

\* A timeout that kills the child it gave up on.
TimeoutKills(t) ==
  /\ Reading(t)
  /\ Leave(t, "Timeout", -1)
  /\ timedOut' = timedOut \cup {id[t]}
  /\ procs' = [procs EXCEPT ![process[1]] = "killed"]
  /\ outOpen' = FALSE
  /\ UNCHANGED <<process, wire, honest, initOk, counterVars, child>>

\* tokio::time::timeout(10 s, ..) elapses: "Timeout waiting for MCP server
\* response".  The process is not touched.
Timeout(t) ==
  /\ Reading(t)
  /\ Leave(t, "Timeout", -1)
  /\ timedOut' = timedOut \cup {id[t]}
  /\ UNCHANGED <<process, procs, wire, honest, initOk, counterVars, outOpen,
                 child>>

\* -------------------------------------------------- send_notification()
\* initialize(): send_notification("initialized") after the Ok of the
\* `initialize` request.  With no process stored nothing is written and the
\* call is Ok all the same.
NotifyLock(t) ==
  /\ pc[t] = "n_lock"
  /\ ProcLockFree
  /\ IF process = None
       THEN /\ Done(t, "connect", "Ok", -1)
            /\ UNCHANGED <<procLock, wire>>
       ELSE IF ~Running(process)
         THEN /\ Done(t, "connect", "WriteFailed", -1)
              /\ UNCHANGED <<procLock, wire>>
         ELSE /\ wire' = Append(wire, Json("notif", "initialized", 0))
              /\ procLock' = procLock \cup {t}
              /\ Goto(t, "n_nl")
              /\ UNCHANGED <<op, id, skipped>>
  /\ UNCHANGED <<process, stdout, procs, histVars, honest, counterVars,
                 outOpen, child>>

\* stdin.write_all(b"\n")?, flush()?, Ok(()): connect() returns Ok.
NotifyNewline(t) ==
  /\ pc[t] = "n_nl"
  /\ procLock' = procLock \ {t}
  /\ IF Running(process)
       THEN /\ wire' = Append(wire, Newline)
            /\ Done(t, "connect", "Ok", -1)
       ELSE /\ Done(t, "connect", "WriteFailed", -1)
            /\ UNCHANGED wire
  /\ UNCHANGED <<process, stdout, procs, histVars, honest, counterVars,
                 outOpen, child>>

\* ---------------------------------------------- list_tools(), call_tool()
Request(t, o) ==
  /\ o \in {"list_tools", "call_tool"}
  /\ request_id + Pending < MaxId
  /\ op' = [op EXCEPT ![t] = o]
  /\ pc' = [pc EXCEPT ![t] = "s_id"]
  /\ ret' = NoRet
  /\ UNCHANGED otherVars
  /\ UNCHANGED <<process, stdout, procLock, procs, wire, histVars, honest,
                 counterVars, outOpen, child, id, skipped>>

StartRequest(t, o) ==
  /\ pc[t] = "idle"
  /\ mgr = "api"
  /\ Request(t, o)
  /\ UNCHANGED mgr

\* ---------------------------------------------------------- disconnect()
\* process_lock.take(), then process.kill().await?.  kill() of a child that
\* has already exited may return an error, after the take().
Release(t, o) ==
  /\ ProcLockFree
  /\ IF process = None
       THEN /\ o = "Ok"
            /\ UNCHANGED <<process, stdout, procs, wire, histVars, outOpen>>
       ELSE /\ o = "Ok" \/ ~Running(process)
            /\ process' = None
            /\ stdout' = FALSE
            /\ procs' = [procs EXCEPT
                 ![process[1]] = IF @ = "running" THEN "killed" ELSE "reaped"]
            /\ outOpen' = FALSE
            /\ wire' = <<>>
            /\ timedOut' = {}
            /\ initOk' = FALSE
  /\ Done(t, "disconnect", o, -1)
  /\ UNCHANGED <<procLock, honest, counterVars, child>>

Disconnect(t, o) ==
  /\ pc[t] = "idle"
  /\ mgr = "api"
  /\ o \in {"Ok", "KillFailed"}
  /\ Release(t, o)

\* ------------------------------------- is_available(), validate_config()
\* Both lock the process mutex and look at the Option: what a call that
\* gets the lock in this state returns.
is_available == process # None

validate_config == IF process = None THEN "NotConnected" ELSE "Ok"

\* ------------------------------------------------------- the subprocess
\* Nothing returns in a step of the subprocess.
EnvFrame ==
  /\ ret' = NoRet
  /\ UNCHANGED otherVars
  /\ UNCHANGED <<process, stdout, procLock, wire, pc, histVars, mgr,
                 counterVars, localVars>>

\* A child exits on its own: the stored one, or one connect() has spawned
\* and not yet stored.
ProcExit(g) ==
  /\ procs[g] = "running"
  /\ process = Some(g) \/ \E t \in Tasks : child[t] = Some(g)
  /\ procs' = [procs EXCEPT ![g] = "exited"]
  /\ outOpen' = (outOpen /\ process # Some(g))
  /\ honest' = FALSE
  /\ EnvFrame

\* The stored child closes its stdout and keeps running.
ProcCloseStdout ==
  /\ Running(process)
  /\ outOpen
  /\ outOpen' = FALSE
  /\ honest' = FALSE
  /\ EnvFrame
  /\ UNCHANGED procs

\* ----------------------------------------------------------- MCPManager
\* add_server(): MCPServer::new(config) and server.connect().  The client
\* is local to add_server until it is inserted into `servers`.
AddServerSpawnFails(t) ==
  /\ pc[t] = "idle"
  /\ mgr = "new"
  /\ SpawnFails(t)

AddServerConnect(t) ==
  /\ pc[t] = "idle"
  /\ mgr = "new"
  /\ Spawn(t)
  /\ mgr' = "adding"

\* add_server(): server.list_tools() after connect() returned Ok.
AddServerListTools(t) ==
  /\ pc[t] = "a_list"
  /\ Request(t, "list_tools")
  /\ UNCHANGED mgr

\* add_server(): servers.insert(server_name, server).  From here on other
\* tasks reach the client through the manager.
AddServerInsert(t) ==
  /\ pc[t] \in {"a_tools", "a_empty"}
  /\ mgr' = "registered"
  /\ pc' = [pc EXCEPT ![t] = IF @ = "a_tools" THEN "a_map" ELSE "idle"]
  /\ ret' = NoRet
  /\ UNCHANGED otherVars
  /\ UNCHANGED <<process, stdout, procLock, procs, wire, histVars, honest,
                 outOpen, counterVars, localVars>>

\* add_server(): tool_mapping.insert(tool.name, server_name) for the tools
\* that list_tools() found.
AddServerMap(t) ==
  /\ pc[t] = "a_map"
  /\ mgr' = IF mgr = "registered" THEN "mapped" ELSE mgr
  /\ pc' = [pc EXCEPT ![t] = "idle"]
  /\ ret' = NoRet
  /\ UNCHANGED otherVars
  /\ UNCHANGED <<process, stdout, procLock, procs, wire, histVars, honest,
                 outOpen, counterVars, localVars>>

\* get_all_tools(): server.list_tools() on every registered client, under
\* the read lock of `servers`.
GetAllTools(t) ==
  /\ pc[t] = "idle"
  /\ mgr \in {"registered", "mapped"}
  /\ Request(t, "list_tools")
  /\ UNCHANGED mgr

\* execute_function(): the tool is in tool_to_server and its client in
\* `servers`: server.call_tool(tool_call) on a clone of the Arc.
ExecuteFunction(t) ==
  /\ pc[t] = "idle"
  /\ mgr = "mapped"
  /\ Request(t, "call_tool")
  /\ UNCHANGED mgr

\* remove_server(): servers.remove(server_name) under the write lock, which
\* a get_all_tools() in progress keeps it from taking.
RemoveServer(t) ==
  /\ pc[t] = "idle"
  /\ mgr \in {"registered", "mapped"}
  /\ \A u \in Tasks : op[u] # "list_tools"
  /\ mgr' = "removed"
  /\ pc' = [pc EXCEPT ![t] = "d_lock"]
  /\ ret' = NoRet
  /\ UNCHANGED otherVars
  /\ UNCHANGED <<process, stdout, procLock, procs, wire, histVars, honest,
                 outOpen, counterVars, localVars>>

\* remove_server(): server.disconnect().await?
RemoveServerDisconnect(t, o) ==
  /\ pc[t] = "d_lock"
  /\ o \in {"Ok", "KillFailed"}
  /\ Release(t, o)

\* ------------------------------------------------------- specification
RequestStep(t) ==
  \/ AllocId(t)
  \/ IncrId(t)
  \/ SendLock(t)
  \/ SendNewline(t)
  \/ SendCheck(t)
  \/ \E l \in Lines : ReadLine(t, l)
  \/ ReadEof(t)
  \/ Timeout(t)
  \/ NotifyLock(t)
  \/ NotifyNewline(t)

Environment ==
  \/ \E g \in Gens : ProcExit(g)
  \/ ProcCloseStdout

\* Tasks that share one MCPServer call its public operations in any order.
Next ==
  \/ \E t \in Tasks :
       \/ ConnectSpawnFails(t)
       \/ ConnectSpawn(t)
       \/ ConnectStore(t)
       \/ StartRequest(t, "call_tool")
       \/ \E o \in {"Ok", "KillFailed"} : Disconnect(t, o)
       \/ RequestStep(t)
  \/ Environment

Spec == Init /\ [][Next]_vars

\* The caller drops the future of a call at one of the awaits of
\* send_request: the wait for either lock, a write, the flush, a read_line.
\* The locals go with it: the process guard is released, and the BufReader
\* with the stdout it took is dropped, so process.stdout stays None.
\* Nothing returns.
Cancel(t) ==
  /\ pc[t] \in {"s_id", "s_lock", "s_nl", "s_wait", "s_read1", "s_read"}
  /\ procLock' = procLock \ {t}
  /\ pc' = [pc EXCEPT ![t] = "idle"]
  /\ op' = [op EXCEPT ![t] = "none"]
  /\ id' = [id EXCEPT ![t] = 0]
  /\ skipped' = [skipped EXCEPT ![t] = FALSE]
  /\ ret' = NoRet
  /\ UNCHANGED otherVars
  /\ UNCHANGED <<process, stdout, procs, wire, histVars, mgr, honest, outOpen,
                 counterVars, child>>

\* Tasks that also abandon their calls.
CancelNext ==
  \/ Next
  \/ \E t \in Tasks : Cancel(t)

CancelSpec == Init /\ [][CancelNext]_vars

\* The tokio runtime polls every task that can go on, and the timer of
\* tokio::time::timeout fires.
Fairness ==
  \A t \in Tasks : WF_vars(RequestStep(t)) /\ WF_vars(Timeout(t))

FairSpec == Spec /\ Fairness

\* One client in the hands of the MCPManager: add_server() creates and
\* connects it, and only what the manager does with a registered client
\* reaches it.
AddServerInit ==
  /\ Fresh
  /\ mgr = "new"
  /\ NoStream
  /\ NoRegistry
  /\ NoDecorator
  /\ NoExecution
  /\ NoParser
  /\ NoConsumer

AddServerNext ==
  \/ \E t \in Tasks :
       \/ AddServerSpawnFails(t)
       \/ AddServerConnect(t)
       \/ ConnectStore(t)
       \/ AddServerListTools(t)
       \/ AddServerInsert(t)
       \/ AddServerMap(t)
       \/ GetAllTools(t)
       \/ ExecuteFunction(t)
       \/ RemoveServer(t)
       \/ \E o \in {"Ok", "KillFailed"} : RemoveServerDisconnect(t, o)
       \/ RequestStep(t)
  \/ Environment

AddServerSpec == AddServerInit /\ [][AddServerNext]_vars

\* ==================================================== the backup client
\* src-backup/providers/mcp.rs, the older copy of MCPServer.  Its spawn,
\* its id allocation, its disconnect() and the callers of send_request are
\* those of the client above; its connect() and the lock of its
\* send_request differ.

\* connect(): `let mut process = self.process.lock().await;
\* *process = Some(child);` and then self.initialize().await? with the guard
\* `process` still alive: it is dropped when connect() returns.
BackupConnectStore(t) ==
  /\ pc[t] = "c_store"
  /\ ProcLockFree
  /\ procLock' = procLock \cup {t}
  /\ process' = child[t]
  /\ stdout' = TRUE
  /\ outOpen' = Running(child[t])
  /\ wire' = <<>>
  /\ timedOut' = {}
  /\ initOk' = FALSE
  /\ child' = [child EXCEPT ![t] = None]
  /\ Goto(t, "s_id")
  /\ UNCHANGED <<op, id, skipped, procs, honest, counterVars>>

\* send_request(): self.process.lock().await, and with no process the
\* error "Failed to get response from MCP server".  With a process the
\* request and its newline are written and the lines are read up to the
\* Response or the end of stdout; the guard goes when the function returns,
\* and with it, for connect(), the guard that connect() holds.
BackupSendLock(t, o) ==
  /\ pc[t] = "s_lock"
  /\ ProcLockFree
  /\ o \in {"Ok", "RpcError", "NoResponse"}
  /\ IF process = None
       THEN /\ o = "NoResponse"
            /\ UNCHANGED wire
       ELSE wire' = wire \o <<Json("req", MethodOf(op[t]), id[t]), Newline>>
  /\ Done(t, op[t], o, id[t])
  /\ UNCHANGED <<process, stdout, procLock, procs, histVars, honest,
                 counterVars, outOpen, child>>

BackupStep(t) ==
  \/ BackupConnectStore(t)
  \/ AllocId(t)
  \/ IncrId(t)
  \/ \E o \in {"Ok", "RpcError", "NoResponse"} : BackupSendLock(t, o)

BackupNext ==
  \/ \E t \in Tasks :
       \/ ConnectSpawnFails(t)
       \/ ConnectSpawn(t)
       \/ StartRequest(t, "call_tool")
       \/ \E o \in {"Ok", "KillFailed"} : Disconnect(t, o)
       \/ BackupStep(t)
  \/ \E g \in Gens : ProcExit(g)

BackupSpec == Init /\ [][BackupNext]_vars

\* The runtime polls every task that can go on.
BackupFairSpec == BackupSpec /\ \A t \in Tasks : WF_vars(BackupStep(t))

\* C38 (as claimed), for the copy in src-backup: a connect() that is
\* under way eventually returns.
C38_BackupConnectReturns ==
  \A t \in Tasks : (op[t] = "connect") ~> (op[t] = "none")

\* ===================================================== stream normalizers
\* Text is a sequence of pieces: "a" is a visible character, "nl" a line
\* feed, "J" the one-line JSON object {"name": .., "arguments": ..}; the
\* tag [TOOL_REQUEST] is the two pieces "O" ([TOOL_) and "R" (REQUEST]),
\* the tag [END_TOOL_REQUEST] the two pieces "E" ([END_TOOL_) and "R", so
\* that a transport boundary can fall inside a tag.
OpenTag  == <<"O", "R">>
CloseTag == <<"E", "R">>

Min(S) == CHOOSE x \in S : \A y \in S : x <= y
Max(S) == CHOOSE x \in S : \A y \in S : x >= y

\* str::contains
Contains(s, pat) ==
  \E i \in 1..(Len(s) - Len(pat) + 1) : SubSeq(s, i, i + Len(pat) - 1) = pat

\* str::trim: the line feed is the white space of these texts.
Trim(s) ==
  LET solid == {i \in 1..Len(s) : s[i] # "nl"}
  IN  IF solid = {} THEN <<>> ELSE SubSeq(s, Min(solid), Max(solid))

RECURSIVE Concat(_)
Concat(ss) == IF ss = <<>> THEN <<>> ELSE Head(ss) \o Concat(Tail(ss))

\* The regex with an alternative `$` for the closing tag: a region may run
\* to the end of the text.
RegionEndsOrEof(s, i) ==
  {j \in (i + 2)..(Len(s) + 1) :
     /\ j <= Len(s) - 1 => SubSeq(s, j, j + 1) = CloseTag
     /\ j # Len(s)
     /\ \A k \in (i + 2)..(j - 1) : k <= Len(s) => s[k] # "nl"}

\* Regex \[TOOL_REQUEST\](.*?)\[END_TOOL_REQUEST\]: where a match that
\* starts at i can end.  `.` matches every character but the line feed.
RegionEnds(s, i) ==
  {j \in (i + 2)..(Len(s) - 1) :
     /\ SubSeq(s, j, j + 1) = CloseTag
     /\ \A k \in (i + 2)..(j - 1) : s[k] # "nl"}

\* The starts, from position `from` on, at which the regex matches.
RegionStarts(s, from) ==
  {i \in from..(Len(s) - 1) : SubSeq(s, i, i + 1) = OpenTag /\ RegionEnds(s, i) # {}}

\* FunctionCall { name, arguments: args.to_string() } of a captured group
\* whose trimmed text is a JSON object with `name` and `arguments`.
FunctionCallOf(cap) ==
  IF Trim(cap) = <<"J">> THEN <<[name |-> "tool", arguments |-> "args"]>> ELSE <<>>

\* captures_iter: the leftmost match, the shortest from there, and on from
\* its end.
RECURSIVE CallsFrom(_, _)
CallsFrom(s, from) ==
  IF RegionStarts(s, from) = {} THEN <<>>
  ELSE LET i == Min(RegionStarts(s, from))
           j == Min(RegionEnds(s, i))
       IN  FunctionCallOf(SubSeq(s, i + 2, j - 1)) \o CallsFrom(s, j + 2)

\* deepseek_parser::parse_deepseek_tool_calls: <<>> stands for None.
parse_deepseek_tool_calls(content) == CallsFrom(content, 1)

\* replace_all(content, ""): the text outside the matches.
RECURSIVE WithoutRegions(_, _)
WithoutRegions(s, from) ==
  IF RegionStarts(s, from) = {} THEN SubSeq(s, from, Len(s))
  ELSE LET i == Min(RegionStarts(s, from))
           j == Min(RegionEnds(s, i))
       IN  SubSeq(s, from, i - 1) \o WithoutRegions(s, j + 2)

\* Regex <think>.*?</think>, the tag <think> being the piece "T" and the
\* tag </think> the piece "K": where a match that starts at i can end.
ThinkEnds(s, i) ==
  {j \in (i + 1)..Len(s) :
     /\ s[j] = "K"
     /\ \A k \in (i + 1)..(j - 1) : s[k] # "nl"}

ThinkStarts(s, from) ==
  {i \in from..Len(s) : s[i] = "T" /\ ThinkEnds(s, i) # {}}

\* think_re.replace_all(&without_tools, ""): the text outside the matches.
RECURSIVE WithoutThinks(_, _)
WithoutThinks(s, from) ==
  IF ThinkStarts(s, from) = {} THEN SubSeq(s, from, Len(s))
  ELSE LET i == Min(ThinkStarts(s, from))
           j == Min(ThinkEnds(s, i))
       IN  SubSeq(s, from, i - 1) \o WithoutThinks(s, j + 1)

\* deepseek_parser::extract_content_without_tools: the tool regions are
\* removed and the rest trimmed, then the <think> blocks are removed and
\* the rest trimmed.
extract_content_without_tools(content) ==
  Trim(WithoutThinks(Trim(WithoutRegions(content, 1)), 1))

\* ------------------------------------------------------------- SSE lines
\* A `data: ` line with a JSON chunk (delta.content, finish_reason,
\* delta.function_call) and the line `data: [DONE]`.  The blank line that
\* ends an SSE event is left out: every adapter skips or trims it.
DataLine(c, f, fc) == [kind |-> "data", content |-> c, finish |-> f, fc |-> fc]
DoneLine == [kind |-> "done", content |-> <<>>, finish |-> "none", fc |-> None]

\* A line that no adapter decodes: it has no `data: ` prefix (an SSE
\* comment, an `event:` line), or what follows the prefix is no JSON of a
\* chunk.
JunkLine == [kind |-> "junk", content |-> <<>>, finish |-> "none", fc |-> None]

\* StreamingResponse { delta, finish_reason, function_call_delta }
StreamingResponse(d, f, fc) ==
  [delta |-> d, finish_reason |-> f, function_call_delta |-> fc]

RECURSIVE Contents(_)
Contents(lines) ==
  IF lines = <<>> THEN <<>> ELSE Head(lines).content \o Contents(Tail(lines))

\* The value a variable that every matching line overwrites ends with.
LastOf(vals) ==
  LET set == {i \in 1..Len(vals) : vals[i] # "none"}
  IN  IF set = {} THEN "none" ELSE vals[Max(set)]

\* OpenAIProvider::stream_complete, the closure over one transport frame:
\* the contents of its lines are joined, [DONE] sets "stop" and a
\* finish_reason sets itself, the later line winning.
OpenAIChunk(frame) ==
  StreamingResponse(
    Contents(frame),
    LastOf([i \in 1..Len(frame) |->
              IF frame[i].kind = "done" THEN "stop" ELSE frame[i].finish]),
    LET set == {i \in 1..Len(frame) : frame[i].fc # None}
    IN  IF set = {} THEN None ELSE frame[Max(set)].fc)

\* AnthropicProvider::stream_complete, the closure over one frame: a line
\* with text is a content_block_delta, a finishing line a message_stop; the
\* line [DONE] is no JSON and is skipped.
AnthropicChunk(frame) ==
  StreamingResponse(
    Contents(frame),
    IF \E i \in 1..Len(frame) : frame[i].finish # "none" THEN "stop" ELSE "none",
    None)

\* OpenAICompatibleProvider::stream_complete, the closure over one frame.
\* A frame that is blank or holds [DONE] anywhere is the "stop" chunk.
\* strip_prefix("data: ") and from_str read a frame that is one data line;
\* the JSON of a frame with more lines does not parse, and the chunk is
\* empty.  `acc` is accumulated_content after the push_str.
CompatibleChunk(frame, acc, is_deepseek) ==
  IF frame = <<>> \/ \E i \in 1..Len(frame) : frame[i].kind = "done"
    THEN StreamingResponse(<<>>, "stop", None)
  ELSE IF Len(frame) > 1 \/ frame[1].kind = "junk"
    THEN StreamingResponse(<<>>, "none", None)
  ELSE LET line == frame[1]
           delta == line.content
           finishing == is_deepseek /\ line.finish # "none" /\ Contains(acc, OpenTag)
           calls == parse_deepseek_tool_calls(acc)
           function_call_delta ==
             IF finishing /\ calls # <<>> THEN Some(calls[1]) ELSE line.fc
           processed_delta ==
             IF is_deepseek /\ (Contains(delta, OpenTag) \/ Contains(delta, CloseTag))
               THEN <<>>
             ELSE IF finishing THEN extract_content_without_tools(acc)
             ELSE delta
       IN  StreamingResponse(processed_delta, line.finish, function_call_delta)

\* if is_deepseek && !delta.is_empty() { acc.push_str(&delta) }, for a
\* frame whose JSON parsed.
Accumulate(frame, acc, is_deepseek) ==
  IF is_deepseek /\ Len(frame) = 1 /\ frame[1].kind = "data"
    THEN acc \o frame[1].content ELSE acc

\* str::split_whitespace
RECURSIVE split_whitespace(_)
split_whitespace(s) ==
  IF s = <<>> THEN <<>>
  ELSE IF Head(s) = "nl" THEN split_whitespace(Tail(s))
  ELSE LET ends == {i \in 1..Len(s) : s[i] = "nl"}
           n == IF ends = {} THEN Len(s) ELSE Min(ends) - 1
       IN  <<SubSeq(s, 1, n)>> \o split_whitespace(SubSeq(s, n + 1, Len(s)))

\* MCPServer::stream_complete: one chunk for every word of the completed
\* response, the word and a blank, and "stop" set on the last of them.
SubprocessChunks(content) ==
  LET words == split_whitespace(content)
  IN  [i \in 1..Len(words) |->
         StreamingResponse(words[i] \o <<"nl">>,
                           IF i = Len(words) THEN "stop" ELSE "none", None)]

\* ------------------------------------------------------------ the streams
\* What a model writes: nothing, plain text, text and a closed tool region
\* on one line, the same with the region laid out over lines as the tests
\* of deepseek_parser have it, and a region that is never closed.
ModelOutputs ==
  { <<>>,
    <<"a">>,
    <<"a", "nl", "a">>,
    <<"a", "O", "R", "J", "E", "R">>,
    <<"a", "nl", "O", "R", "nl", "J", "nl", "E", "R">>,
    <<"O", "R", "J">> }

\* s cut after the positions of `cuts`.
RECURSIVE SplitAt(_, _)
SplitAt(s, cuts) ==
  IF cuts = {} THEN <<s>>
  ELSE LET c == Min(cuts)
       IN  <<SubSeq(s, 1, c)>>
             \o SplitAt(SubSeq(s, c + 1, Len(s)), {x - c : x \in cuts \ {c}})

\* The SSE lines of one completion: a data line for every delta of the
\* output, then [DONE], with or without the chunk that carries
\* finish_reason before it.
SseOf(output, cuts, finish) ==
  LET deltas == SplitAt(output, cuts)
  IN  [i \in 1..Len(deltas) |-> DataLine(deltas[i], "none", None)]
        \o (IF finish THEN <<DataLine(<<>>, "stop", None)>> ELSE <<>>)
        \o <<DoneLine>>

\* The cuts of `output` that fall inside it.
CutsOf(output) ==
  {c \in SUBSET (1..(Len(output) - 1)) : Cardinality(c) <= MaxCuts}

\* The ways the transport hands the lines over: a line a frame, or two
\* neighbouring lines in one frame, or a line a frame and somewhere a frame
\* that is empty or, before [DONE], a line that does not decode.
Framings(lines) ==
  LET all == 1..(Len(lines) - 1)
      single == SplitAt(lines, all)
  IN  {single}
        \cup {SplitAt(lines, all \ {k}) : k \in all}
        \cup {SubSeq(single, 1, k) \o << <<>> >> \o SubSeq(single, k + 1, Len(single)) :
                k \in 0..Len(single)}
        \cup {SubSeq(single, 1, k) \o << <<JunkLine>> >>
                 \o SubSeq(single, k + 1, Len(single)) :
                k \in 0..(Len(single) - 1)}

HttpAdapters == {"openai", "compatible", "deepseek", "anthropic"}

\* The frames the stream has not yet mapped: it yields one item for every
\* frame it is handed.
frames == SubSeq(transport, Len(chunks) + 1, Len(transport))

\* stream_complete has returned the stream; nothing is polled yet.  For
\* the subprocess adapter `sse` is the completed response and `transport`
\* the chunks made from it.
StreamInit ==
  /\ Fresh
  /\ mgr = "api"
  /\ NoRegistry
  /\ NoDecorator
  /\ NoExecution
  /\ NoParser
  /\ NoConsumer
  /\ chunks = <<>>
  /\ accumulated_content = <<>>
  /\ \E output \in ModelOutputs :
       \/ /\ adapter = "subprocess"
          /\ sse = <<DataLine(output, "stop", None)>>
          /\ transport = SubprocessChunks(output)
       \/ \E cuts \in CutsOf(output), finish \in BOOLEAN :
            /\ adapter \in HttpAdapters
            /\ sse = SseOf(output, cuts, finish)
            /\ transport \in Framings(sse)

\* The stream is polled and maps the next frame of the transport.
Poll(a, chunk) ==
  /\ adapter = a
  /\ frames # <<>>
  /\ chunks' = Append(chunks, chunk)
  /\ UNCHANGED <<clientVars, adapter, sse, transport, registryVars, decoratorVars,
               toolVars, consumerVars, parserVars>>

PollOpenAI ==
  /\ frames # <<>>
  /\ Poll("openai", OpenAIChunk(Head(frames)))
  /\ UNCHANGED accumulated_content

PollAnthropic ==
  /\ frames # <<>>
  /\ Poll("anthropic", AnthropicChunk(Head(frames)))
  /\ UNCHANGED accumulated_content

PollCompatible ==
  /\ adapter \in {"compatible", "deepseek"}
  /\ frames # <<>>
  /\ accumulated_content' =
       Accumulate(Head(frames), accumulated_content, adapter = "deepseek")
  /\ Poll(adapter,
          CompatibleChunk(Head(frames), accumulated_content', adapter = "deepseek"))

\* The stream::iter over the chunks made from the completed response.
PollSubprocess ==
  /\ frames # <<>>
  /\ Poll("subprocess", Head(frames))
  /\ UNCHANGED accumulated_content

StreamNext ==
  \/ PollOpenAI
  \/ PollAnthropic
  \/ PollCompatible
  \/ PollSubprocess

StreamSpec == StreamInit /\ [][StreamNext]_vars

\* The transport has ended and every frame is mapped.
StreamEnded == adapter # "none" /\ frames = <<>>

\* The text deltas the stream has yielded, joined.
VisibleText == Concat([i \in 1..Len(chunks) |-> chunks[i].delta])

\* The chunks that carry a finish reason.
Terminal == {i \in 1..Len(chunks) : chunks[i].finish_reason # "none"}

\* The output holds a tool region that is closed and whose body is the
\* JSON object of a call.
ClosedRegion(s) ==
  \E i, j \in 1..(Len(s) - 1) :
    /\ i + 2 <= j
    /\ SubSeq(s, i, i + 1) = OpenTag
    /\ SubSeq(s, j, j + 1) = CloseTag
    /\ Trim(SubSeq(s, i + 2, j - 1)) = <<"J">>

\* The function call of the finishing chunk when the whole output has
\* arrived in one delta before it.
WholeOutputCall ==
  CompatibleChunk(<<DataLine(<<>>, "stop", None)>>, Contents(sse), TRUE)
    .function_call_delta

\* ========================================================= the registry
\* MCPManager over several server configurations.  `servers` holds, for a
\* registered name, the state of the child its client stores ("running",
\* or "exited" once the process has ended on its own); "absent" is a name
\* that is not a key of the map.  A call is taken from its first lock to its
\* return; the steps of one client inside a call are AddServerSpec's.
ChildStates == {"running", "exited"}

Call(fn, arg, connected, listed, outcome, routed, tools, proc) ==
  [fn |-> fn, arg |-> arg, connected |-> connected, listed |-> listed,
   outcome |-> outcome, routed |-> routed, tools |-> tools, proc |-> proc]

\* A call of the manager touches the maps only.
OnlyRegistry ==
  UNCHANGED <<clientVars, streamVars, decoratorVars, toolVars, consumerVars,
              parserVars>>

\* get_server_status(): every key of `servers`, each reported connected.
get_server_status == {p \in ServerNames : servers[p] # "absent"}

\* execute_function(), the two lookups: the server that call_tool() is
\* called on, or the error of the lookup that fails.
Lookup(name) ==
  IF tool_to_server[name] = "none" THEN "NoServerForTool"
  ELSE IF servers[tool_to_server[name]] = "absent" THEN "ServerNotFound"
  ELSE tool_to_server[name]

\* add_server(config) whose connect() fails: nothing is registered.
add_server_fails(p) ==
  /\ call' = Call("add_server", p, FALSE, FALSE, "Err", "none", {}, "none")
  /\ UNCHANGED <<servers, tool_to_server, advertised>>
  /\ OnlyRegistry

\* add_server(config) whose connect() succeeds.  list_tools() returns the
\* tools of the process or fails (the process has ended, the answer is late
\* or is no tool list), and then `tools` is vec![].  servers.insert replaces
\* an entry of the same name; tool_mapping.insert overwrites the owner of
\* every tool found.
add_server(p, listed, st) ==
  /\ st \in ChildStates
  /\ listed => st = "running"
  /\ LET tools == IF listed THEN advertised[p] ELSE {}
     IN  /\ servers' = [servers EXCEPT ![p] = st]
         /\ tool_to_server' =
              [n \in ToolNames |-> IF n \in tools THEN p ELSE tool_to_server[n]]
         /\ call' = Call("add_server", p, TRUE, listed, "Ok", "none", tools, st)
  /\ UNCHANGED advertised
  /\ OnlyRegistry

\* get_all_tools(): list_tools() of every registered client; the tools of
\* those that answer (`ok`) are joined, the others are skipped.
get_all_tools(ok) ==
  /\ ok \subseteq {p \in ServerNames : servers[p] = "running"}
  /\ call' = Call("get_all_tools", "none", FALSE, FALSE, "Ok", "none",
                  UNION {advertised[p] : p \in ok}, "none")
  /\ UNCHANGED <<servers, tool_to_server, advertised>>
  /\ OnlyRegistry

\* execute_function() that falls back to any registered server when the
\* lookup of the tool fails.
execute_function_with_fallback(name, o) ==
  /\ o \in {"Ok", "ToolExecutionFailed", "CallFailed"}
  /\ \E to \in get_server_status :
       /\ servers[to] = "exited" => o = "CallFailed"
       /\ call' = Call("execute_function", name, FALSE, FALSE, o, to, {}, "none")
  /\ UNCHANGED <<servers, tool_to_server, advertised>>
  /\ OnlyRegistry

\* execute_function(function_call): the lookups, then call_tool() on the
\* server found; `o` is what the call gives (text, an is_error result, or a
\* failed request).
execute_function(name, o) ==
  /\ o \in {"Ok", "ToolExecutionFailed", "CallFailed"}
  /\ LET to == Lookup(name)
     IN  IF to \in ServerNames
           THEN /\ servers[to] = "exited" => o = "CallFailed"
                /\ call' = Call("execute_function", name, FALSE, FALSE, o, to,
                                {}, "none")
           ELSE /\ o = "Ok"
                /\ call' = Call("execute_function", name, FALSE, FALSE, to,
                                "none", {}, "none")
  /\ UNCHANGED <<servers, tool_to_server, advertised>>
  /\ OnlyRegistry

\* remove_server(name): servers.remove; for an entry that was there,
\* server.disconnect().await? and then tool_mapping.retain.  disconnect()
\* takes the child and kills it, and kill() of a child that has ended may
\* fail: the `?` returns before the retain.
remove_server(p, o) ==
  /\ o \in {"Ok", "KillFailed"}
  /\ IF servers[p] = "absent"
       THEN /\ o = "Ok"
            /\ call' = Call("remove_server", p, FALSE, FALSE, "Ok", "none", {},
                            "none")
            /\ UNCHANGED <<servers, tool_to_server>>
       ELSE /\ o = "KillFailed" => servers[p] = "exited"
            /\ servers' = [servers EXCEPT ![p] = "absent"]
            /\ tool_to_server' =
                 IF o = "Ok"
                   THEN [n \in ToolNames |->
                           IF tool_to_server[n] = p THEN "none"
                           ELSE tool_to_server[n]]
                   ELSE tool_to_server
            /\ call' = Call("remove_server", p, FALSE, FALSE,
                            IF o = "Ok" THEN "Ok" ELSE "Err", "none", {},
                            IF servers[p] = "running" THEN "killed" ELSE "reaped")
  /\ UNCHANGED advertised
  /\ OnlyRegistry

\* The process of a registered client ends on its own.
ServerExit(p) ==
  /\ servers[p] = "running"
  /\ servers' = [servers EXCEPT ![p] = "exited"]
  /\ call' = NoCall
  /\ UNCHANGED <<tool_to_server, advertised>>
  /\ OnlyRegistry

\* The configurations list any tools; the manager is new.
RegistryInit ==
  /\ Fresh
  /\ mgr = "api"
  /\ NoStream
  /\ NoDecorator
  /\ NoExecution
  /\ NoParser
  /\ NoConsumer
  /\ servers = [p \in ServerNames |-> "absent"]
  /\ tool_to_server = [n \in ToolNames |-> "none"]
  /\ advertised \in [ServerNames -> SUBSET ToolNames]
  /\ call = NoCall

RegistryNext ==
  \/ \E p \in ServerNames : add_server_fails(p)
  \/ \E p \in ServerNames, listed \in BOOLEAN, st \in ChildStates :
       add_server(p, listed, st)
  \/ \E ok \in SUBSET ServerNames : get_all_tools(ok)
  \/ \E name \in ToolNames, o \in {"Ok", "ToolExecutionFailed", "CallFailed"} :
       execute_function(name, o)
  \/ \E p \in ServerNames, o \in {"Ok", "KillFailed"} : remove_server(p, o)
  \/ \E p \in ServerNames : ServerExit(p)

RegistrySpec == RegistryInit /\ [][RegistryNext]_vars

\* =============================================== the enhancing provider
\* MCPEnhancedProvider over a base provider and the manager.  Text is a
\* sequence of pieces; a function call is a record.
TheCall == [name |-> "tool", arguments |-> "args"]

BaseContents == {<<>>, <<"text">>}

\* What base_provider.complete() returns: an error, or a response with its
\* content and function_call.
BaseResponses ==
  {[base |-> "Err", content |-> <<>>, function_call |-> None, stream |-> <<>>]}
    \cup {[base |-> "Ok", content |-> c, function_call |-> fc, stream |-> <<>>] :
            c \in BaseContents, fc \in {None, Some(TheCall)}}

\* The streams a base provider returns: empty, text and the terminal chunk,
\* and streams that carry a function call, complete in the terminal chunk
\* or before it.
BaseStreams ==
  { <<>>,
    <<StreamingResponse(<<"text">>, "none", None),
      StreamingResponse(<<>>, "stop", None)>>,
    <<StreamingResponse(<<"text">>, "none", None),
      StreamingResponse(<<>>, "function_call", Some(TheCall))>>,
    <<StreamingResponse(<<>>, "none", Some(TheCall)),
      StreamingResponse(<<"text">>, "none", None),
      StreamingResponse(<<>>, "stop", None)>> }

OnlyDecorator ==
  UNCHANGED <<clientVars, streamVars, registryVars, toolVars, consumerVars,
              parserVars>>

\* complete(request) or stream_complete(request) is called.
DecoratorCall(fn, functions, tool_choice) ==
  /\ dpc \in {"idle", "returned", "streaming"}
  /\ fn \in {"complete", "stream_complete"}
  /\ dpc' = "inject"
  /\ request' = [fn |-> fn, functions |-> functions, tool_choice |-> tool_choice]
  /\ submitted' = <<>>
  /\ response' = NoResponse
  /\ executed' = <<>>
  /\ passed' = <<>>
  /\ OnlyDecorator

\* The injection that sets tool_choice to Auto whatever the caller chose.
InjectOverwritingChoice(supports_functions, functions) ==
  /\ dpc = "inject"
  /\ request' =
       IF /\ request.functions = None
          /\ supports_functions
          /\ functions # None
          /\ functions[1] # {}
         THEN [request EXCEPT !.functions = functions,
                              !.tool_choice = Some("Auto")]
         ELSE request
  /\ dpc' = IF request.fn = "complete" THEN "base" ELSE "base_stream"
  /\ UNCHANGED <<submitted, response, executed, passed>>
  /\ OnlyDecorator

\* Both operations begin alike: a request without functions gets the
\* manager's functions, and tool_choice Auto if it has none, when the base
\* provider supports functions and get_functions() returns some.
\* `functions` is what get_functions() gives: <<>> for an error, else the
\* list in a tuple.
Inject(supports_functions, functions) ==
  /\ dpc = "inject"
  /\ request' =
       IF /\ request.functions = None
          /\ supports_functions
          /\ functions # None
          /\ functions[1] # {}
         THEN [request EXCEPT
                 !.functions = functions,
                 !.tool_choice = IF @ = None THEN Some("Auto") ELSE @]
         ELSE request
  /\ dpc' = IF request.fn = "complete" THEN "base" ELSE "base_stream"
  /\ UNCHANGED <<submitted, response, executed, passed>>
  /\ OnlyDecorator

\* complete(): base_provider.complete(request).await?  The call goes on to
\* execute_function when the response has a function call.
BaseComplete(r) ==
  /\ dpc = "base"
  /\ r \in BaseResponses
  /\ submitted' = Append(submitted, request)
  /\ response' = r
  /\ dpc' = IF r.function_call # None THEN "execute" ELSE "returned"
  /\ UNCHANGED <<request, executed, passed>>
  /\ OnlyDecorator

\* The response content after the tool's reply: the reply alone when the
\* content is empty, else the content, a heading and the reply.
WithToolText(content, heading, text) ==
  IF content = <<>> THEN text ELSE content \o <<heading>> \o text

\* The errors of execute_function: the two lookups, an is_error result,
\* and a call_tool() that fails (RPC error, timeout, closed pipe).
ExecuteErrors ==
  {"NoServerForTool", "ServerNotFound", "ToolExecutionFailed", "CallFailed"}

\* complete() that hands the tool's reply to the base provider for a
\* further turn.
ExecuteAndResubmit(o) ==
  /\ dpc = "execute"
  /\ o \in {"Ok"} \cup ExecuteErrors
  /\ executed' = Append(executed,
                   [call |-> response.function_call[1], text |-> <<"result">>])
  /\ submitted' = Append(submitted, request)
  /\ dpc' = "returned"
  /\ UNCHANGED <<request, response, passed>>
  /\ OnlyDecorator

\* complete() that returns the error of execute_function with `?`.
ExecuteOrFail(o) ==
  /\ dpc = "execute"
  /\ o \in {"Ok"} \cup ExecuteErrors
  /\ LET text == IF o = "Ok" THEN <<"result">>
                 ELSE <<"Tool execution failed: ", o>>
     IN  /\ executed' = Append(executed,
                          [call |-> response.function_call[1], text |-> text])
         /\ response' =
              IF o = "Ok"
                THEN [response EXCEPT
                        !.content = WithToolText(@, "Tool Result:", text)]
                ELSE [response EXCEPT !.base = "Err", !.content = <<>>]
  /\ dpc' = "returned"
  /\ UNCHANGED <<request, submitted, passed>>
  /\ OnlyDecorator

\* complete(): mcp_manager.execute_function(function_call.clone()), and its
\* result or its error put into response.content; then Ok(response).  The
\* error's text is the name of the error.
Execute(o) ==
  /\ dpc = "execute"
  /\ o \in {"Ok"} \cup ExecuteErrors
  /\ LET text == IF o = "Ok" THEN <<"result">>
                 ELSE <<"Tool execution failed: ", o>>
     IN  /\ executed' = Append(executed,
                          [call |-> response.function_call[1], text |-> text])
         /\ response' = [response EXCEPT
              !.content = WithToolText(@, IF o = "Ok" THEN "Tool Result:"
                                          ELSE "Tool Error:", text)]
  /\ dpc' = "returned"
  /\ UNCHANGED <<request, submitted, passed>>
  /\ OnlyDecorator

\* stream_complete(): self.base_provider.stream_complete(request).await is
\* the value returned, an error or the base provider's stream itself.
BaseStreamComplete(ok, r) ==
  /\ dpc = "base_stream"
  /\ r \in BaseStreams
  /\ submitted' = Append(submitted, request)
  /\ IF ok
       THEN /\ dpc' = "streaming"
            /\ response' = [response EXCEPT !.base = "Ok", !.stream = r]
       ELSE /\ dpc' = "returned"
            /\ r = <<>>
            /\ response' = [response EXCEPT !.base = "Err"]
  /\ UNCHANGED <<request, executed, passed>>
  /\ OnlyDecorator

\* A returned stream that executes the function call of a chunk it passes.
PollReturnedExecuting ==
  /\ dpc = "streaming"
  /\ Len(passed) < Len(response.stream)
  /\ LET chunk == response.stream[Len(passed) + 1]
     IN  /\ passed' = Append(passed, chunk)
         /\ executed' =
              IF chunk.function_call_delta = None THEN executed
              ELSE Append(executed, [call |-> chunk.function_call_delta[1],
                                     text |-> <<"result">>])
  /\ UNCHANGED <<dpc, request, submitted, response>>
  /\ OnlyDecorator

\* The caller polls the returned stream: the next item of the base stream.
PollReturned ==
  /\ dpc = "streaming"
  /\ Len(passed) < Len(response.stream)
  /\ passed' = Append(passed, response.stream[Len(passed) + 1])
  /\ UNCHANGED <<dpc, request, submitted, response, executed>>
  /\ OnlyDecorator

DecoratorInit ==
  /\ Fresh
  /\ mgr = "api"
  /\ NoStream
  /\ NoRegistry
  /\ NoDecorator
  /\ NoExecution
  /\ NoParser
  /\ NoConsumer

DecoratorNext ==
  \/ \E fn \in {"complete", "stream_complete"},
        functions \in {None, Some({"own"})},
        tool_choice \in {None, Some("None")} :
       DecoratorCall(fn, functions, tool_choice)
  \/ \E supports_functions \in BOOLEAN,
        functions \in {None, Some({}), Some({"tool"})} :
       Inject(supports_functions, functions)
  \/ \E r \in BaseResponses : BaseComplete(r)
  \/ \E o \in {"Ok"} \cup ExecuteErrors : Execute(o)
  \/ \E ok \in BOOLEAN, r \in BaseStreams : BaseStreamComplete(ok, r)
  \/ PollReturned

DecoratorSpec == DecoratorInit /\ [][DecoratorNext]_vars

\* =============================================================== claims
\* Positions of send_request() at which the local `id` is an allocated id.
HoldsId(t) == pc[t] \in {"s_incr", "s_lock", "s_nl", "s_wait", "s_read1", "s_read"}

\* Positions of send_request(), from the call to the return.
InSendRequest(t) == pc[t] = "s_id" \/ HoldsId(t)

\* Positions at which a task is between the two writes of one message or
\* has a request on the pipe and its read loop to run or running.
UsesPipes(t) == pc[t] \in {"s_nl", "s_wait", "s_read1", "s_read", "n_nl"}

\* The `initialized` notification and its newline are on stdin.
NotificationWritten ==
  \E j \in 1..(Len(wire) - 1) : wire[j].kind = "notif" /\ wire[j + 1].part = "nl"

\* The handshake with the stored child is complete.
HandshakeDone == initOk /\ NotificationWritten

\* C1: a call_tool that returns a result returns the result of the Response
\* that carries its own id, which is the id of no other call in progress;
\* and while the subprocess only answers requests it has read, with their
\* ids, a call ends with its result, or with the timeout if the answer is
\* late, or finds the client disconnected.
C1_OwnResponse ==
  /\ (ret.op = "call_tool" /\ ret.outcome = "Ok") =>
       /\ ret.result = ret.id
       /\ \A u \in Tasks : HoldsId(u) => id[u] # ret.result
  /\ (ret.op = "call_tool" /\ honest) =>
       ret.outcome \in {"Ok", "Timeout", "NoProcess"}

\* Two calls overlap and the one with the larger id gets its result first.
C1_Witness ==
  /\ ret.op = "call_tool" /\ ret.outcome = "Ok" /\ honest
  /\ \E u \in Tasks : HoldsId(u) /\ op[u] = "call_tool" /\ id[u] < ret.id

\* C2: no id is read from the counter twice, and no two calls in progress
\* hold the same id.
C2_DistinctIds ==
  /\ \A i, j \in 1..Len(allocated) : i # j => allocated[i] # allocated[j]
  /\ \A t, u \in Tasks : (t # u /\ HoldsId(t) /\ HoldsId(u)) => id[t] # id[u]

\* Two callers are in send_request at once, one between reading and
\* incrementing the counter, the other waiting for the counter.
C2_Witness ==
  \E t, u \in Tasks : pc[t] = "s_incr" /\ pc[u] = "s_id" /\ idLock = {t}

\* C3: at most one task is between the writes of a message or owns the
\* read loop; the task that reads has taken stdout and holds the process
\* lock; on stdin every message that is followed by anything is followed by
\* its own newline, and every newline follows a message.
C3_OneOwner ==
  /\ Cardinality({t \in Tasks : UsesPipes(t)}) <= 1
  /\ \A t \in Tasks : UsesPipes(t) => procLock = {t}
  /\ \A t \in Tasks : Reading(t) => ~stdout
  /\ \A j \in 1..Len(wire) :
       /\ (wire[j].part = "msg" /\ j < Len(wire)) => wire[j + 1].part = "nl"
       /\ wire[j].part = "nl" => (j > 1 /\ wire[j - 1].part = "msg")

\* A read loop runs while another caller, its id allocated, waits to write.
C3_Witness ==
  \E t, u \in Tasks : Reading(t) /\ pc[u] = "s_lock" /\ id[u] > id[t]

C5_NextCallWorks ==
  /\ ret.outcome # "NoStdout"
  /\ (process # None /\ \A t \in Tasks : ~Reading(t)) => stdout
  /\ (ret.op = "call_tool" /\ ret.outcome = "Ok") =>
       (ret.result \notin timedOut /\ ret.id \notin timedOut)

\* After a request timed out, a later call read the late Response to it,
\* skipped it, and returned its own result.
C5_Witness ==
  /\ ret.op = "call_tool" /\ ret.outcome = "Ok" /\ ret.skipped
  /\ timedOut # {} /\ ret.result = ret.id

\* C6: the step in which a call returns the timeout or an RPC error
\* changes neither the stored process nor the state of any child, and the
\* client holds a process after it; a child is killed only in the step in
\* which a disconnect() returns.
C6_ProcessLeftInPlace ==
  [][/\ ret'.outcome \in {"Timeout", "RpcError"} =>
          (process' = process /\ procs' = procs /\ is_available')
     /\ \A g \in Gens : (procs'[g] = "killed" /\ procs[g] # "killed") =>
          ret'.op = "disconnect"]_vars

\* A call has returned an RPC error and the subprocess runs on, stored.
C6_Witness ==
  /\ ret.op = "call_tool" /\ ret.outcome = "RpcError"
  /\ Running(process) /\ is_available

\* C7 (as claimed): once disconnect() has released a child of the client,
\* the client is never available again.
C7_DisconnectedIsTerminal ==
  (\E g \in Gens : procs[g] \in {"killed", "reaped"}) => ~is_available

\* C8 (as claimed): when connect() returns that the process exited at once,
\* the client is not available, validate_config fails and nothing was
\* written to the process.
C8_ExitedAtConnect ==
  (ret.op = "connect" /\ ret.outcome = "ExitedImmediately") =>
    (~is_available /\ validate_config # "Ok" /\ wire = <<>>)

\* C9: in the hands of the manager, the first message on stdin is the
\* `initialize` request; the notification is there only if the Response to
\* `initialize` was read; a tools/list or tools/call request is there only
\* after the notification and its newline; connect() returns Ok only with
\* the handshake complete.
C9_HandshakeOrder ==
  /\ wire # <<>> => (wire[1].kind = "req" /\ wire[1].method = "initialize")
  /\ \A j \in 1..Len(wire) :
       /\ wire[j].kind = "notif" => initOk
       /\ wire[j].method \in {"tools/list", "tools/call"} =>
            \E i \in 1..(j - 2) : wire[i].kind = "notif" /\ wire[i + 1].part = "nl"
  /\ (ret.op = "connect" /\ ret.outcome = "Ok") => HandshakeDone
  /\ \A t \in Tasks : pc[t] \in {"n_lock", "n_nl", "a_list"} => initOk

\* The manager's list_tools and a registered caller's request are on stdin
\* behind the complete handshake.
C9_Witness ==
  /\ HandshakeDone
  /\ \E j, k \in 1..Len(wire) :
       j < k /\ wire[j].method = "tools/list" /\ wire[k].method \in {"tools/list", "tools/call"}

\* C10 (as claimed): the client is available, and validate_config Ok, only
\* with the handshake complete.
C10_AvailableOnlyAfterHandshake ==
  (is_available \/ validate_config = "Ok") => HandshakeDone

\* C11 (as claimed): a chunk with a finish reason is the last chunk that
\* the stream has yielded, and a stream that has ended has yielded exactly
\* one such chunk.
C11_OneTerminalChunk ==
  /\ \A i \in Terminal : i = Len(chunks)
  /\ StreamEnded => Cardinality(Terminal) = 1

\* C12 (as claimed): for the OpenAI and the OpenAI-compatible normalizer,
\* when every frame held at least one whole line and the stream has ended,
\* exactly one chunk carries a finish reason, the reason is "stop", and the
\* deltas joined are the delta.content fields of the lines joined.
C12_SseRoundTrip ==
  (/\ adapter \in {"openai", "compatible"}
   /\ StreamEnded
   /\ \A i \in 1..Len(transport) : transport[i] # <<>>) =>
    /\ Cardinality(Terminal) = 1
    /\ \A i \in Terminal : chunks[i].finish_reason = "stop"
    /\ VisibleText = Contents(sse)

\* C13 (as claimed): with the bracket-tag convention, the deltas yielded so
\* far, joined, hold neither tag, and so no single delta does.
C13_NoTagInVisibleText ==
  adapter = "deepseek" =>
    (~Contains(VisibleText, OpenTag) /\ ~Contains(VisibleText, CloseTag))

\* C14 (as claimed): with the bracket-tag convention, for an output with a
\* closed tool region that arrives a delta a frame and is followed by the
\* finishing chunk, the stream that has ended has yielded a function call,
\* and its function calls are the one that the output gives when it arrives
\* in one delta.
C14_SplitRegionSameCall ==
  (/\ adapter = "deepseek"
   /\ StreamEnded
   /\ Len(transport) = Len(sse)
   /\ \E i \in 1..Len(sse) : sse[i].finish # "none"
   /\ ClosedRegion(Contents(sse))) =>
    /\ WholeOutputCall # None
    /\ {chunks[i].function_call_delta : i \in 1..Len(chunks)} \ {None}
         = {WholeOutputCall}

\* C15 (as claimed): every tool that get_all_tools() has just returned is
\* one that execute_function() routes, in this registry, to a registered
\* server that lists the tool.
C15_ListedToolRoutes ==
  call.fn = "get_all_tools" =>
    \A n \in call.tools :
      /\ Lookup(n) \in ServerNames
      /\ n \in advertised[Lookup(n)]

\* C16: a step in which execute_function() returns for a tool name that no
\* registered server owns returns the error of the failed lookup, calls no
\* server and leaves both maps as they were.
C16_UnknownToolFails ==
  [][(call'.fn = "execute_function" /\ Lookup(call'.arg) \notin ServerNames) =>
       /\ call'.outcome = Lookup(call'.arg)
       /\ call'.outcome \in {"NoServerForTool", "ServerNotFound"}
       /\ call'.routed = "none"
       /\ UNCHANGED <<servers, tool_to_server>>]_vars

\* execute_function() has failed for an unknown tool while servers are
\* registered and another tool has an owner.
C16_Witness ==
  /\ call.fn = "execute_function"
  /\ call.outcome = "NoServerForTool"
  /\ tool_to_server[call.arg] = "none"
  /\ \E n \in ToolNames : Lookup(n) \in ServerNames

\* C17 (as claimed): after add_server() whose connect() succeeded and whose
\* list_tools() failed, the call has returned Ok, the name is in
\* get_server_status, its child is still stored, and no tool maps to the
\* name.
C17_ListFailureStillRegisters ==
  (call.fn = "add_server" /\ call.connected /\ ~call.listed) =>
    /\ call.outcome = "Ok"
    /\ call.arg \in get_server_status
    /\ call.proc \in ChildStates
    /\ \A n \in ToolNames : tool_to_server[n] # call.arg

\* C18 (as claimed): after remove_server(name) has returned, Ok or not, the
\* name is not in get_server_status, no tool maps to it, and its child does
\* not run.
C18_RemovedLeavesNothing ==
  call.fn = "remove_server" =>
    /\ call.arg \notin get_server_status
    /\ \A n \in ToolNames : tool_to_server[n] # call.arg
    /\ call.proc # "running"

\* C19: in complete() the base provider gets the request at most once and
\* execute_function at most one call; when complete() has returned, the
\* base provider has got the request exactly once, and for a response with
\* a function call execute_function has got exactly that call, once, and
\* the content ends with its reply; for a response without one, or an
\* error, nothing was executed.
C19_SingleTurn ==
  request.fn = "complete" =>
    /\ Len(submitted) <= 1
    /\ Len(executed) <= 1
    /\ dpc = "returned" =>
         /\ Len(submitted) = 1
         /\ IF response.function_call # None
              THEN /\ Len(executed) = 1
                   /\ executed[1].call = response.function_call[1]
                   /\ Len(response.content) >= Len(executed[1].text)
                   /\ SubSeq(response.content,
                             Len(response.content) - Len(executed[1].text) + 1,
                             Len(response.content)) = executed[1].text
              ELSE executed = <<>>

\* complete() has returned a response with content and a function call,
\* the tool's result after the content.
C19_Witness ==
  /\ request.fn = "complete"
  /\ dpc = "returned"
  /\ Len(executed) = 1
  /\ response.content = <<"text", "Tool Result:", "result">>

\* C20: in stream_complete() nothing is handed to execute_function, the
\* base provider gets the request at most once, and the chunks the caller
\* has polled are the first chunks of the base provider's stream, as they
\* are and in their order.
C20_StreamPassedThrough ==
  request.fn = "stream_complete" =>
    /\ executed = <<>>
    /\ Len(submitted) <= 1
    /\ Len(passed) <= Len(response.stream)
    /\ passed = SubSeq(response.stream, 1, Len(passed))

\* The caller has polled a whole stream that carries a function call.
C20_Witness ==
  /\ request.fn = "stream_complete"
  /\ dpc = "streaming"
  /\ passed = response.stream
  /\ \E i \in 1..Len(passed) : passed[i].function_call_delta # None

\* C21 (as claimed): with callers that abandon calls, stdout is in the
\* stored child whenever no read loop runs, no call fails for want of it,
\* no read loop runs without the process lock, and on stdin every message
\* that is followed by anything is followed by its own newline.
C21_CancelLeavesClientUsable ==
  /\ ret.outcome # "NoStdout"
  /\ (process # None /\ \A t \in Tasks : ~Reading(t)) => stdout
  /\ \A t \in Tasks : Reading(t) => procLock = {t}
  /\ \A j \in 1..(Len(wire) - 1) :
       wire[j].part = "msg" => wire[j + 1].part = "nl"

\* C22 (as claimed): a step in which a call reads a line that is not the
\* Response with its id (a notification or request, a Response with
\* another id, a line that decodes as no message, bytes that are no text)
\* returns nothing and leaves the call in its read loop.
C22_OtherLinesSkipped ==
  [][\A t \in Tasks, l \in Lines :
       (~Matches(l, id[t]) /\ ReadLine(t, l)) =>
         (pc'[t] = "s_read" /\ ret' = NoRet)]_vars

\* C23: a step in which a call reads the Response that carries its id and
\* an error object, with or without a result, is the step in which that
\* call returns the RPC error with the code of the error object and no
\* result value.
C23_ErrorResponseFails ==
  [][\A t \in Tasks, l \in Lines :
       (/\ Matches(l, id[t])
        /\ l.shape \in {"error", "both"}
        /\ ReadLine(t, l)) =>
         /\ ret'.task = t
         /\ ret'.id = l.id
         /\ ret'.outcome = "RpcError"
         /\ ret'.error = ErrorOf(l)
         /\ ret'.result = -1]_vars

\* A call_tool has returned the RPC error that names its own id while
\* another call holds a smaller id.
C23_Witness ==
  /\ ret.op = "call_tool" /\ ret.outcome = "RpcError"
  /\ ret.error = ret.id /\ ret.result = -1
  /\ \E u \in Tasks : HoldsId(u) /\ id[u] < ret.id

\* C24 (as claimed): a disconnect() that has returned leaves the client
\* without a process; once a disconnect() has released a child, nothing is
\* on stdin and no call is at its writes or its read loop; and a step in
\* which disconnect() returns on a client without a process returns Ok and
\* changes neither the process, the pipes, the children nor the counter.
C24_DisconnectIdempotent ==
  /\ [](ret.op = "disconnect" => ~is_available)
  /\ []((\E g \in Gens : procs[g] \in {"killed", "reaped"}) =>
          (wire = <<>> /\ \A t \in Tasks : ~UsesPipes(t)))
  /\ [][(ret'.op = "disconnect" /\ process = None) =>
          /\ ret'.outcome = "Ok"
          /\ UNCHANGED <<process, stdout, procs, wire, outOpen, request_id>>]_vars

\* C25 (as claimed): on stdin of the stored child, a request written
\* earlier carries the smaller id.
C25_IdsIncreaseOnStdin ==
  \A j, k \in 1..Len(wire) :
    (j < k /\ wire[j].kind = "req" /\ wire[k].kind = "req") =>
      wire[j].id < wire[k].id

\* ========================================================= the consumer
\* tauri_main::stream_message from the stream that stream_complete has
\* returned: the loop over the chunks, the accumulation of the function
\* call, the events of the window and the execution at the finish reason.
MaxLines == 3

\* FunctionCallDelta { name: Option<String>, arguments: Option<String> }
\* as the delta.function_call of a line: the name with an empty argument
\* string, the name alone, and fragments of the argument string.
FunctionCallDelta(name, arguments) == [name |-> name, arguments |-> arguments]

FcDeltas ==
  { FunctionCallDelta(<< <<"f">> >>, << <<>> >>),
    FunctionCallDelta(<< <<"f">> >>, None),
    FunctionCallDelta(None, << <<"x">> >>),
    FunctionCallDelta(None, << <<"y">> >>) }

\* The data lines of a completion that calls a function: text, or a
\* function_call delta.
ConsumerLines ==
  {DataLine(<<"a">>, "none", None)}
    \cup {DataLine(<<>>, "none", <<d>>) : d \in FcDeltas}

\* How a completion ends: the line with finish_reason and [DONE], [DONE]
\* alone, or a connection that closes before either.
Endings ==
  { <<DataLine(<<>>, "function_call", None), DoneLine>>, <<DoneLine>>, <<>> }

\* One iteration of `while let Some(chunk_result) = stream.next().await`
\* for Ok(chunk): the name is overwritten, the arguments are appended, a
\* delta that is not empty is emitted, and a finish reason executes the
\* call when both locals are Some, emits its result or its error (`o`), and
\* breaks; "stream-end" follows the loop.
Consume(o) ==
  /\ cpc = "polling"
  /\ frames # <<>>
  /\ o \in {"Ok", "Err"}
  /\ accumulated_content' = Accumulate(Head(frames), accumulated_content, FALSE)
  /\ LET chunk == IF adapter = "openai" THEN OpenAIChunk(Head(frames))
                  ELSE CompatibleChunk(Head(frames), accumulated_content', FALSE)
         fcd == chunk.function_call_delta
         name == IF fcd # None /\ fcd[1].name # None
                   THEN fcd[1].name ELSE function_name
         buffer == IF fcd # None /\ fcd[1].arguments # None
                     THEN IF function_call_buffer # None
                            THEN <<function_call_buffer[1] \o fcd[1].arguments[1]>>
                            ELSE fcd[1].arguments
                     ELSE function_call_buffer
         shown == IF chunk.delta # <<>> THEN Append(emitted, chunk.delta)
                  ELSE emitted
         runs == chunk.finish_reason # "none" /\ name # None /\ buffer # None
     IN  /\ chunks' = Append(chunks, chunk)
         /\ function_name' = name
         /\ function_call_buffer' = buffer
         /\ executions' =
              IF runs THEN Append(executions,
                                  [name |-> name[1], arguments |-> buffer[1]])
              ELSE executions
         /\ emitted' =
              IF runs THEN Append(shown, IF o = "Ok" THEN <<"Function Result:">>
                                         ELSE <<"Function Error:">>)
              ELSE shown
         /\ o = "Err" => runs
         /\ cpc' = IF chunk.finish_reason # "none" THEN "ended" ELSE "polling"
  /\ UNCHANGED <<clientVars, adapter, sse, transport, registryVars, decoratorVars,
                 toolVars, parserVars>>

\* stream.next() gives None: the loop ends and "stream-end" is emitted.
ConsumeEnd ==
  /\ cpc = "polling"
  /\ frames = <<>>
  /\ cpc' = "ended"
  /\ UNCHANGED <<function_name, function_call_buffer, emitted, executions>>
  /\ UNCHANGED <<clientVars, streamVars, registryVars, decoratorVars, toolVars,
                 parserVars>>

\* provider.stream_complete(request) has returned Ok(stream) for the OpenAI
\* or the OpenAI-compatible adapter; the locals are None.
ConsumerInit ==
  /\ Fresh
  /\ mgr = "api"
  /\ NoRegistry
  /\ NoDecorator
  /\ NoExecution
  /\ NoParser
  /\ cpc = "polling"
  /\ function_name = None
  /\ function_call_buffer = None
  /\ emitted = <<>>
  /\ executions = <<>>
  /\ chunks = <<>>
  /\ accumulated_content = <<>>
  /\ adapter \in {"openai", "compatible"}
  /\ \E n \in 0..MaxLines :
       \E lines \in [1..n -> ConsumerLines], ending \in Endings :
         /\ sse = lines \o ending
         /\ transport \in Framings(sse)

ConsumerNext ==
  \/ \E o \in {"Ok", "Err"} : Consume(o)
  \/ ConsumeEnd

ConsumerSpec == ConsumerInit /\ [][ConsumerNext]_vars

\* The lines that the backend sent before its first line that ends the
\* completion (finish_reason or [DONE]).
BeforeTerminal ==
  LET ends == {i \in 1..Len(sse) : sse[i].kind = "done" \/ sse[i].finish # "none"}
  IN  IF ends = {} THEN sse ELSE SubSeq(sse, 1, Min(ends) - 1)

\* The `function_call.arguments` fragments of `lines`, joined in order.
RECURSIVE Fragments(_)
Fragments(lines) ==
  IF lines = <<>> THEN <<>>
  ELSE (IF Head(lines).fc # None /\ Head(lines).fc[1].arguments # None
          THEN Head(lines).fc[1].arguments[1] ELSE <<>>)
         \o Fragments(Tail(lines))

\* C33 (as claimed): stream_message executes a function call only after a
\* chunk with a finish reason, at most once for a stream, and only with a
\* name and an argument string that are not empty; a stream whose lines
\* carry no argument text, or that has yielded no chunk with a finish
\* reason, has no execution.
C33_ExecutesOnceWhenComplete ==
  /\ Len(executions) <= 1
  /\ executions # <<>> => Terminal # {}
  /\ \A i \in 1..Len(executions) :
       executions[i].name # <<>> /\ executions[i].arguments # <<>>
  /\ Fragments(sse) = <<>> => executions = <<>>

\* C34 (as claimed): the argument string of an executed call is the
\* fragments of the lines sent before the terminal one, joined in order,
\* whatever the framing.
C34_ArgumentsAreAllFragments ==
  \A i \in 1..Len(executions) :
    executions[i].arguments = Fragments(BeforeTerminal)

\* =========================================================== the parser
\* The two functions of deepseek_parser over the texts a model can write.
MaxSegments == 5

\* What a text is made of: a visible character (which is no JSON), a line
\* feed, the two tool tags, the JSON object of a call, and the two think
\* tags.
Segments ==
  {<<"a">>, <<"nl">>, OpenTag, CloseTag, <<"J">>, <<"T">>, <<"K">>}

\* tests::test_parse_deepseek_tool_calls, its `content`.
TestParseContent ==
  <<"a", "nl", "O", "R", "nl", "J", "nl", "E", "R">>

\* tests::test_extract_content_without_tools, its `content`.
TestExtractContent ==
  <<"T", "nl", "a", "nl", "K", "nl", "a", "nl",
    "O", "R", "nl", "J", "nl", "E", "R">>

ParserInputs ==
  {Concat(ss) : ss \in UNION {[1..n -> Segments] : n \in 0..MaxSegments}}
    \cup {TestParseContent, TestExtractContent}

OnlyParser ==
  UNCHANGED <<clientVars, streamVars, registryVars, decoratorVars, toolVars,
              consumerVars>>

\* parse_deepseek_tool_calls(&content) is called.
ParseToolCalls ==
  /\ "parse" \notin applied
  /\ function_calls' = parse_deepseek_tool_calls(parser_input)
  /\ applied' = applied \cup {"parse"}
  /\ UNCHANGED <<parser_input, without_tools>>
  /\ OnlyParser

\* extract_content_without_tools(&content) is called.
ExtractContent ==
  /\ "extract" \notin applied
  /\ without_tools' = extract_content_without_tools(parser_input)
  /\ applied' = applied \cup {"extract"}
  /\ UNCHANGED <<parser_input, function_calls>>
  /\ OnlyParser

ParserInit ==
  /\ Fresh
  /\ mgr = "api"
  /\ NoStream
  /\ NoRegistry
  /\ NoDecorator
  /\ NoExecution
  /\ NoConsumer
  /\ parser_input \in ParserInputs
  /\ function_calls = <<>>
  /\ without_tools = <<>>
  /\ applied = {}

ParserNext == ParseToolCalls \/ ExtractContent

ParserSpec == ParserInit /\ [][ParserNext]_vars

\* A region as the claims have it: from an opening tag to the first
\* closing tag after it, line feeds between them or not.
ClosingAfter(s, i) ==
  {j \in (i + 2)..(Len(s) - 1) : SubSeq(s, j, j + 1) = CloseTag}

OpeningFrom(s, from) ==
  {i \in from..(Len(s) - 1) :
     SubSeq(s, i, i + 1) = OpenTag /\ ClosingAfter(s, i) # {}}

\* The calls of the closed regions of s, in order of appearance.
RECURSIVE CallsOfClosedRegions(_, _)
CallsOfClosedRegions(s, from) ==
  IF OpeningFrom(s, from) = {} THEN <<>>
  ELSE LET i == Min(OpeningFrom(s, from))
           j == Min(ClosingAfter(s, i))
       IN  FunctionCallOf(SubSeq(s, i + 2, j - 1)) \o CallsOfClosedRegions(s, j + 2)

\* s without its closed regions.
RECURSIVE OutsideClosedRegions(_, _)
OutsideClosedRegions(s, from) ==
  IF OpeningFrom(s, from) = {} THEN SubSeq(s, from, Len(s))
  ELSE LET i == Min(OpeningFrom(s, from))
           j == Min(ClosingAfter(s, i))
       IN  SubSeq(s, from, i - 1) \o OutsideClosedRegions(s, j + 2)

\* s without its think blocks: from a <think> to the first </think> after
\* it.
RECURSIVE OutsideThinkBlocks(_, _)
OutsideThinkBlocks(s, from) ==
  LET starts == {i \in from..Len(s) :
                   s[i] = "T" /\ \E j \in (i + 1)..Len(s) : s[j] = "K"}
  IN  IF starts = {} THEN SubSeq(s, from, Len(s))
      ELSE LET i == Min(starts)
               j == Min({k \in (i + 1)..Len(s) : s[k] = "K"})
           IN  SubSeq(s, from, i - 1) \o OutsideThinkBlocks(s, j + 1)

\* C35 (as claimed): parse_deepseek_tool_calls returns, in order, the call
\* of every closed region whose body is the JSON object of a call, the
\* regions laid out over lines included, and no call for a text without
\* such a region.
C35_CallsOfEveryClosedRegion ==
  "parse" \in applied =>
    function_calls = CallsOfClosedRegions(parser_input, 1)

\* C36 (as claimed): extract_content_without_tools returns its input
\* without its closed regions and without its think blocks, those that
\* span lines included, the rest in order and trimmed.
C36_RegionsAndThinkBlocksRemoved ==
  "extract" \in applied =>
    without_tools =
      Trim(OutsideThinkBlocks(Trim(OutsideClosedRegions(parser_input, 1)), 1))

\* ======================================================== the tool call
\* MCPManager::execute_function from the FunctionCall to the returned
\* string.  A string is the sequence of its tokens: the argument string is
\* made of the tokens of JSON text ("m" is the member "k":1), a text is made
\* of characters.
MaxArgLen == 3
MaxBlocks == 2

ArgTokens == {"{", "}", "[", "]", "1", "m"}

ArgStrings == UNION {[1..n -> ArgTokens] : n \in 0..MaxArgLen}

\* serde_json::Value, as the tokens it serializes to.
JsonValue(kind, src) == [kind |-> kind, src |-> src]

EmptyObject == JsonValue("object", <<"{", "}">>)

NoParse == [ok |-> FALSE, kind |-> "none", src |-> <<>>, rest |-> <<>>]

\* serde_json's deserializer for one value at the head of `s`: a number,
\* an object or an array; `rest` is what follows the value.
RECURSIVE ParseValue(_)
ParseValue(s) ==
  IF s = <<>> THEN NoParse
  ELSE CASE Head(s) = "1" ->
              [ok |-> TRUE, kind |-> "number", src |-> <<"1">>, rest |-> Tail(s)]
         [] Head(s) = "{" ->
              IF Len(s) >= 2 /\ s[2] = "}"
                THEN [ok |-> TRUE, kind |-> "object", src |-> SubSeq(s, 1, 2),
                      rest |-> SubSeq(s, 3, Len(s))]
              ELSE IF Len(s) >= 3 /\ s[2] = "m" /\ s[3] = "}"
                THEN [ok |-> TRUE, kind |-> "object", src |-> SubSeq(s, 1, 3),
                      rest |-> SubSeq(s, 4, Len(s))]
              ELSE NoParse
         [] Head(s) = "[" ->
              IF Len(s) >= 2 /\ s[2] = "]"
                THEN [ok |-> TRUE, kind |-> "array", src |-> SubSeq(s, 1, 2),
                      rest |-> SubSeq(s, 3, Len(s))]
              ELSE LET v == ParseValue(Tail(s))
                   IN  IF v.ok /\ v.rest # <<>> /\ Head(v.rest) = "]"
                         THEN [ok |-> TRUE, kind |-> "array",
                               src |-> <<"[">> \o v.src \o <<"]">>,
                               rest |-> Tail(v.rest)]
                         ELSE NoParse
         [] OTHER -> NoParse

\* serde_json::from_str::<Value>: one value and nothing after it.
from_str(s) ==
  LET v == ParseValue(s)
  IN  IF v.ok /\ v.rest = <<>> THEN <<JsonValue(v.kind, v.src)>> ELSE None

\* From<FunctionCall> for MCPToolCall: the parsed arguments, or json!({})
\* when from_str fails.
MCPToolCallFrom(func_call) ==
  [name |-> func_call.name,
   arguments |-> LET v == from_str(func_call.arguments)
                 IN  IF v = None THEN <<EmptyObject>> ELSE v]

\* The content blocks of a result as they are on the wire: `body` is the
\* text of a text block, the data of an image, the uri of a resource; `mime`
\* is the name under which an image carries its MIME type.
Texts == {<<"a">>, <<"b">>, <<>>}

Blocks ==
  {[type |-> "text", body |-> t, mime |-> "none"] : t \in Texts}
    \cup {[type |-> "image", body |-> <<"d">>, mime |-> m] :
            m \in {"mime_type", "mimeType"}}
    \cup {[type |-> "resource", body |-> <<"u">>, mime |-> "none"]}

\* What send_request gives for `tools/call`: an error, or the result
\* object with its content and the flags that are present and true.
Results ==
  {NoResult} \cup
  {[ok |-> TRUE, content |-> c, keys |-> k] :
     c \in UNION {[1..n -> Blocks] : n \in 0..MaxBlocks},
     k \in SUBSET {"isError", "is_error"}}

\* serde's derived Deserialize for MCPContent: Image needs the fields
\* `data` and `mime_type`; every field of MCPResource but `uri` is optional.
DecodesContent(b) == b.type = "image" => b.mime = "mime_type"

\* serde_json::from_value::<MCPToolResult>: every block decodes; `is_error`
\* is the field of that name, None when it is not there.
DecodesResult(r) == \A i \in 1..Len(r.content) : DecodesContent(r.content[i])

is_error(r) == IF "is_error" \in r.keys THEN <<TRUE>> ELSE None

\* [String]::join(sep).
RECURSIVE join(_, _)
join(ts, sep) ==
  IF ts = <<>> THEN <<>>
  ELSE IF Len(ts) = 1 THEN ts[1]
  ELSE ts[1] \o sep \o join(Tail(ts), sep)

\* filter_map over result.content: Some(text) for MCPContent::Text.
RECURSIVE filter_map_text(_)
filter_map_text(c) ==
  IF c = <<>> THEN <<>>
  ELSE IF Head(c).type = "text"
         THEN <<Head(c).body>> \o filter_map_text(Tail(c))
         ELSE filter_map_text(Tail(c))

\* The joined bodies of all blocks, whatever their type.
content_text_all_blocks(r) ==
  join([i \in 1..Len(r.content) |-> r.content[i].body], <<"\n">>)

\* execute_function's `content_text`: the texts joined with "\n".
content_text(r) == join(filter_map_text(r.content), <<"\n">>)

\* A step of execute_function touches its own call only.
OnlyExecution ==
  UNCHANGED <<clientVars, streamVars, registryVars, decoratorVars, consumerVars,
              parserVars>>

\* execute_function(function_call) up to the request: the two lookups,
\* MCPToolCall::from, and the params of `tools/call`.
ExecuteToolCall(name, arguments) ==
  /\ tpc = "idle"
  /\ function_call' = [name |-> name, arguments |-> arguments]
  /\ result' = NoResult
  /\ LET to == Lookup(name)
     IN  IF to \in ServerNames
           THEN /\ tool_call' = MCPToolCallFrom(function_call')
                /\ returned' = NoReturn
                /\ tpc' = "called"
           ELSE /\ tool_call' = NoToolCall
                /\ returned' = [outcome |-> to, text |-> <<>>]
                /\ tpc' = "returned"
  /\ OnlyExecution

\* execute_function from the return of send_request on: call_tool()
\* decodes the result or fails, the texts are joined, and is_error decides
\* between Err and Ok.
CallToolReturns(r) ==
  /\ tpc = "called"
  /\ r \in Results
  /\ result' = r
  /\ returned' =
       IF ~r.ok THEN [outcome |-> "CallFailed", text |-> <<>>]
       ELSE IF ~DecodesResult(r) THEN [outcome |-> "ParseFailed", text |-> <<>>]
       ELSE IF is_error(r) = <<TRUE>>
         THEN [outcome |-> "ToolExecutionFailed", text |-> content_text(r)]
       ELSE [outcome |-> "Ok", text |-> content_text(r)]
  /\ tpc' = "returned"
  /\ UNCHANGED <<function_call, tool_call>>
  /\ OnlyExecution

\* The manager has one server, and the server has listed the tool "a".
\* execute_function keeps nothing from one call to the next: a behaviour
\* is one call.
ExecutionInit ==
  /\ Fresh
  /\ mgr = "api"
  /\ NoStream
  /\ NoDecorator
  /\ NoExecution
  /\ NoParser
  /\ NoConsumer
  /\ servers = [p \in ServerNames |-> IF p = "p1" THEN "running" ELSE "absent"]
  /\ tool_to_server = [n \in ToolNames |-> IF n = "a" THEN "p1" ELSE "none"]
  /\ advertised = [p \in ServerNames |-> IF p = "p1" THEN {"a"} ELSE {}]
  /\ call = NoCall

ExecutionNext ==
  \/ \E name \in ToolNames, arguments \in ArgStrings :
       ExecuteToolCall(name, arguments)
  \/ \E r \in Results : CallToolReturns(r)

ExecutionSpec == ExecutionInit /\ [][ExecutionNext]_vars

C27_IsErrorFails ==
  (tpc = "returned" /\ result.ok /\ DecodesResult(result)
     /\ "isError" \in result.keys) =>
    /\ returned.outcome = "ToolExecutionFailed"
    /\ returned.text = content_text(result)

\* C28 (as claimed): whatever the argument string, a call whose tool has
\* an owner is delegated; the `arguments` sent are the object the string
\* decodes to when it decodes to a JSON object, and the empty object when
\* it does not.
C28_ArgumentsObjectOrEmpty ==
  (tpc # "idle" /\ Lookup(function_call.name) \in ServerNames) =>
    /\ tool_call.name = function_call.name
    /\ LET v == from_str(function_call.arguments)
       IN  tool_call.arguments =
             IF v # None /\ v[1].kind = "object" THEN v ELSE <<EmptyObject>>
    /\ returned.outcome \notin {"NoServerForTool", "ServerNotFound"}

\* C29 (as claimed): the request changes only when it has no functions
\* and the base provider supports functions; then its functions are the
\* manager's catalogue and its tool_choice is Auto unless the caller set
\* one; in every other case it is unchanged; and the request handed to the
\* base provider is the request as it then is.
C29_InjectsCatalogue ==
  [][/\ \A sf \in BOOLEAN, fs \in {Some({}), Some({"tool"})} :
          Inject(sf, fs) =>
            request' =
              IF request.functions = None /\ sf
                THEN [request EXCEPT
                        !.functions = fs,
                        !.tool_choice = IF @ = None THEN Some("Auto") ELSE @]
                ELSE request
     /\ \A i \in 1..Len(submitted') :
          i > Len(submitted) => submitted'[i] = request]_vars

\* C29 (amended): the request changes only when it has no functions, the
\* base provider supports functions and the manager's catalogue is not
\* empty; then its functions are the catalogue and its tool_choice is Auto
\* unless the caller set one; in every other case, an empty catalogue
\* included, functions and tool_choice are unchanged; and the request
\* handed to the base provider is the request as it then is.
C29_InjectsNonEmptyCatalogue ==
  [][/\ \A sf \in BOOLEAN, fs \in {Some({}), Some({"tool"})} :
          Inject(sf, fs) =>
            request' =
              IF request.functions = None /\ sf /\ fs # Some({})
                THEN [request EXCEPT
                        !.functions = fs,
                        !.tool_choice = IF @ = None THEN Some("Auto") ELSE @]
                ELSE request
     /\ \A i \in 1..Len(submitted') :
          i > Len(submitted) => submitted'[i] = request]_vars

C29_Witness ==
  /\ submitted # <<>>
  /\ submitted[1].functions = Some({"tool"})
  /\ submitted[1].tool_choice = Some("None")

\* C30: a step of complete() in which execute_function fails returns
\* Ok(response); the response's content holds the text of the error, after
\* the content the base provider gave.
C30_ToolErrorBecomesText ==
  [][\A o \in ExecuteErrors :
       Execute(o) =>
         /\ dpc' = "returned"
         /\ response'.base = "Ok"
         /\ \E i \in 1..Len(response'.content) : response'.content[i] = o
         /\ Len(response.content) <= Len(response'.content)
         /\ SubSeq(response'.content, 1, Len(response.content)) = response.content
         /\ response'.function_call = response.function_call]_vars

C30_Witness ==
  /\ dpc = "returned"
  /\ response.base = "Ok"
  /\ response.content =
       <<"text", "Tool Error:", "Tool execution failed: ", "NoServerForTool">>

\* The text of the lines that the first n frames have carried.
Arrived(n) == Contents(Concat(SubSeq(transport, 1, n)))

\* C31: with the bracket-tag convention, a chunk carries a function call
\* only when the text that has arrived up to its frame holds the closing
\* tag after an opening tag; and a stream that has ended over an output
\* whose region is never closed has yielded no function call and ends with
\* a chunk that carries a finish reason.
C31_CallOnlyAfterClosingTag ==
  adapter = "deepseek" =>
    /\ \A i \in 1..Len(chunks) :
         chunks[i].function_call_delta # None =>
           \E a, b \in 1..(Len(Arrived(i)) - 1) :
             /\ a + 2 <= b
             /\ SubSeq(Arrived(i), a, a + 1) = OpenTag
             /\ SubSeq(Arrived(i), b, b + 1) = CloseTag
    /\ (StreamEnded /\ ~Contains(Contents(sse), CloseTag)) =>
         /\ \A i \in 1..Len(chunks) : chunks[i].function_call_delta = None
         /\ chunks # <<>>
         /\ chunks[Len(chunks)].finish_reason # "none"

C31_Witness ==
  /\ adapter = "deepseek"
  /\ StreamEnded
  /\ Len(chunks) >= 4
  /\ \E i \in 3..Len(chunks) :
       /\ chunks[i].function_call_delta = Some([name |-> "tool", arguments |-> "args"])
       /\ \A k \in 1..(i - 1) : chunks[k].function_call_delta = None
       /\ ~Contains(Arrived(i - 2), CloseTag)

\* A frame that does not decode: it is empty, or its line has no prefix
\* or no JSON.
Undecodable(frame) == frame = <<>> \/ frame = <<JunkLine>>

\* C32 (as claimed): for the HTTP adapters, the chunk of a frame that does
\* not decode has no text, no function call and no finish reason, and a
\* later frame that is one data line of plain text still yields its text.
C32_BadFrameIsNoOp ==
  adapter \in HttpAdapters =>
    \A i \in 1..Len(chunks) :
      Undecodable(transport[i]) =>
        /\ chunks[i] = StreamingResponse(<<>>, "none", None)
        /\ \A k \in (i + 1)..Len(chunks) :
             (/\ Len(transport[k]) = 1
              /\ transport[k][1].kind = "data"
              /\ ~Contains(transport[k][1].content, <<"R">>)
              /\ transport[k][1].finish = "none") =>
               chunks[k].delta = transport[k][1].content

\* C37 (as claimed): every tool of tool_to_server maps to a name that is a
\* key of `servers`.
C37_MappedToolsHaveServer ==
  \A n \in ToolNames :
    tool_to_server[n] # "none" => servers[tool_to_server[n]] # "absent"

\* C39 (as claimed): when no call of the manager is under way, a child
\* that runs is the stored child of a client that is in `servers`.
C39_NoOrphanProcess ==
  (\A t \in Tasks : pc[t] = "idle") =>
    \A g \in Gens :
      procs[g] = "running" =>
        (mgr \in {"registered", "mapped"} /\ process = Some(g))

\* C40 (as claimed): with the bracket-tag convention, when the output has
\* arrived a data line a frame, the finishing chunk after it, and the
\* stream has ended, the text deltas yielded, joined, are the output
\* without its closed tool regions.
C40_VisibleTextOnce ==
  (/\ adapter = "deepseek"
   /\ StreamEnded
   /\ Len(transport) = Len(sse)
   /\ \E i \in 1..Len(sse) : sse[i].finish # "none") =>
    VisibleText = OutsideClosedRegions(Contents(sse), 1)

====
